---- MODULE Spec2Model ----
(***************************************************************************)
(* Duplicate detection of track-manager (src/track_manager/duplicates.py): *)
(* the text normalizer, the directory matchers and the interactive         *)
(* duplicate resolver, over a small file system.                           *)
(*                                                                         *)
(* Text is a TLA+ string; a position is the 1-based index of the next      *)
(* character.  The regular expressions of normalize_text are written as    *)
(* data (sequences of items) and run by a backtracking matcher that tries  *)
(* the alternatives in the priority order of Python's re module.           *)
(***************************************************************************)
EXTENDS Naturals, Integers, Sequences, FiniteSets, TLC

(***************************************************************************)
(* Strings: str.lower(), str.strip()                                       *)
(***************************************************************************)
UpperLetters == "ABCDEFGHIJKLMNOPQRSTUVWXYZ"

LowerLetters == "abcdefghijklmnopqrstuvwxyz"

CharAt(s, i) == SubSeq(s, i, i)

\* The characters \s matches and str.strip() removes.
Whitespace == {" ", "\t", "\n", "\r", "\f"}

LowerChar(c) ==
    IF \E i \in 1..Len(UpperLetters) : CharAt(UpperLetters, i) = c
    THEN LET i == CHOOSE j \in 1..Len(UpperLetters) : CharAt(UpperLetters, j) = c
         IN  CharAt(LowerLetters, i)
    ELSE c

\* str.lower(), by halves.
RECURSIVE Lower(_)
Lower(s) ==
    IF Len(s) = 0 THEN ""
    ELSE IF Len(s) = 1 THEN LowerChar(s)
    ELSE LET h == Len(s) \div 2
         IN  Lower(SubSeq(s, 1, h)) \o Lower(SubSeq(s, h + 1, Len(s)))

Min(S) == CHOOSE x \in S : \A y \in S : x <= y

Max(S) == CHOOSE x \in S : \A y \in S : x >= y

\* Faulty variant of str.strip(): the text as it is.
NoStrip(s) == s

\* str.strip(): from the first to the last character that is not whitespace.
Strip(s) ==
    LET keep == {i \in 1..Len(s) : CharAt(s, i) \notin Whitespace}
    IN  IF keep = {} THEN "" ELSE SubSeq(s, Min(keep), Max(keep))

(***************************************************************************)
(* Regular expressions as data                                             *)
(***************************************************************************)
\* Character classes.
Dot == [t |-> "any"]

Space == [t |-> "ws"]

OneOf(set) == [t |-> "in", set |-> set]

NoneOf(set) == [t |-> "notin", set |-> set]

ClassHas(cls, c) ==
    CASE cls.t = "any"   -> c # "\n"
      [] cls.t = "ws"    -> c \in Whitespace
      [] cls.t = "in"    -> c \in cls.set
      [] cls.t = "notin" -> c \notin cls.set

\* max = -1 stands for "no upper limit".
Unbounded == 0 - 1

\* Items.
Lit(s) == [k |-> "lit", s |-> s]

Rep(cls, min, max, lazy) ==
    [k |-> "rep", cls |-> cls, min |-> min, max |-> max, lazy |-> lazy, cap |-> FALSE]

\* A repetition that is also the capturing group the replacement refers to.
Capture(rep) == [rep EXCEPT !.cap = TRUE]

Alt(alts) == [k |-> "alt", alts |-> alts]

Eol == [k |-> "eol"]

\* .*?      \s*      \s+      x?
DotStarLazy == Rep(Dot, 0, Unbounded, TRUE)

SpaceStar == Rep(Space, 0, Unbounded, FALSE)

SpacePlus == Rep(Space, 1, Unbounded, FALSE)

Opt(c) == Rep(OneOf({c}), 0, 1, FALSE)

\* [\[\(]   and   [\]\)]
Open == Rep(OneOf({"[", "("}), 1, 1, FALSE)

Close == Rep(OneOf({"]", ")"}), 1, 1, FALSE)

\* The result of a match attempt: <<>> when it fails, else
\* <<end, capStart, capEnd>>: the position after the match and the span
\* [capStart, capEnd) of the capturing repetition (0, 0 when there is none).
NoMatch == <<>>

RECURSIVE ReMatch(_, _, _)
RECURSIVE AltMatch(_, _, _, _, _)

WithCapture(it, r, start, pos) ==
    IF it.cap THEN <<r[1], start, pos>> ELSE r

\* The number of characters of the class that follow pos, up to it.max.
RunLength(it, text, pos) ==
    LET stops == {q \in pos..Len(text) : ~ClassHas(it.cls, CharAt(text, q))}
        run == IF stops = {} THEN Len(text) + 1 - pos ELSE Min(stops) - pos
    IN  IF it.max # Unbounded /\ run > it.max THEN it.max ELSE run

\* A repetition followed by rest.  The backtracking matcher tries the
\* counts in order (a lazy one from the fewest characters up, a greedy one
\* from the most down) and keeps the first count after which rest matches.
RepMatch(it, rest, text, pos) ==
    LET counts == {n \in it.min..RunLength(it, text, pos) :
                      ReMatch(rest, text, pos + n) # NoMatch}
    IN  IF counts = {} THEN NoMatch
        ELSE LET n == IF it.lazy THEN Min(counts) ELSE Max(counts)
             IN  WithCapture(it, ReMatch(rest, text, pos + n), pos, pos + n)

AltMatch(alts, i, rest, text, pos) ==
    IF i > Len(alts) THEN NoMatch
    ELSE LET r == ReMatch(alts[i] \o rest, text, pos)
         IN  IF r # NoMatch THEN r ELSE AltMatch(alts, i + 1, rest, text, pos)

ReMatch(items, text, pos) ==
    IF items = <<>> THEN <<pos, 0, 0>>
    ELSE LET it == Head(items)
             rest == Tail(items)
         IN  CASE it.k = "lit" ->
                    IF /\ pos + Len(it.s) - 1 <= Len(text)
                       /\ SubSeq(text, pos, pos + Len(it.s) - 1) = it.s
                    THEN ReMatch(rest, text, pos + Len(it.s))
                    ELSE NoMatch
               [] it.k = "rep" -> RepMatch(it, rest, text, pos)
               [] it.k = "alt" -> AltMatch(it.alts, 1, rest, text, pos)
               [] it.k = "eol" ->
                    IF \/ pos = Len(text) + 1
                       \/ (pos = Len(text) /\ CharAt(text, pos) = "\n")
                    THEN ReMatch(rest, text, pos)
                    ELSE NoMatch

\* re.search from pos: <<>> or <<start, end, capStart, capEnd>> of the
\* leftmost match.
ReSearch(items, text, pos) ==
    LET starts == {p \in pos..(Len(text) + 1) : ReMatch(items, text, p) # NoMatch}
    IN  IF starts = {} THEN NoMatch
        ELSE <<Min(starts)>> \o ReMatch(items, text, Min(starts))

\* A replacement template: fixed text, then (optionally) the captured group.
Template(pre, group) == [pre |-> pre, group |-> group]

Expand(repl, text, m) ==
    repl.pre \o (IF repl.group THEN SubSeq(text, m[3], m[4] - 1) ELSE "")

\* re.sub(pattern, repl, text): every non-overlapping match, left to right.
\* (An empty match is replaced and the scan moves on by one character.)
RECURSIVE ReSubFrom(_, _, _, _)
ReSubFrom(items, repl, text, pos) ==
    LET m == ReSearch(items, text, pos)
    IN  IF m = NoMatch THEN SubSeq(text, pos, Len(text))
        ELSE IF m[2] > m[1]
        THEN SubSeq(text, pos, m[1] - 1) \o Expand(repl, text, m)
                \o ReSubFrom(items, repl, text, m[2])
        ELSE SubSeq(text, pos, m[1] - 1) \o Expand(repl, text, m)
                \o (IF m[1] <= Len(text)
                    THEN CharAt(text, m[1]) \o ReSubFrom(items, repl, text, m[1] + 1)
                    ELSE "")

ReSub(items, repl, text) == ReSubFrom(items, repl, text, 1)

(***************************************************************************)
(* normalize_text                                                          *)
(***************************************************************************)
\* Official/Video/Audio patterns.
OfficialPatterns ==
    << <<Lit("[official"), DotStarLazy, Lit("]")>>,
       <<Lit("(official"), DotStarLazy, Lit(")")>>,
       <<Lit("["), DotStarLazy, Lit("video"), DotStarLazy, Lit("]")>>,
       <<Lit("("), DotStarLazy, Lit("video"), DotStarLazy, Lit(")")>>,
       <<Lit("["), DotStarLazy, Lit("audio"), DotStarLazy, Lit("]")>>,
       <<Lit("("), DotStarLazy, Lit("audio"), DotStarLazy, Lit(")")>> >>

\* Lyrics/Visualizer patterns.
LyricsPatterns ==
    << <<Open, DotStarLazy, Lit("lyric"), DotStarLazy, Opt("s"), DotStarLazy, Close>>,
       <<Open, Lit("visuali"), Rep(OneOf({"s", "z"}), 1, 1, FALSE), Lit("er"),
         DotStarLazy, Close>> >>

\* Quality/Resolution patterns.
QualityPatterns ==
    << <<Open, Lit("hd"), Close>>,
       <<Open, Lit("4k"), Close>>,
       <<Open, Lit("8k"), Close>>,
       <<Open, Lit("uhd"), Close>>,
       <<Open, Lit("hq"), Close>>,
       <<Open, Lit("lq"), Close>>,
       <<Open, DotStarLazy, Lit("quality"), DotStarLazy, Close>> >>

\* Platform/Source patterns.
PlatformPatterns ==
    << <<SpaceStar, Lit("-"), SpaceStar, Lit("topic"), SpaceStar, Eol>>,
       <<Open, Lit("premium"), Close>> >>

\* Misc promotional patterns.
PromoPatterns ==
    << <<Open, Lit("free"), SpaceStar, Lit("download"), Close>>,
       <<Open, Lit("download"), DotStarLazy, Close>>,
       <<Open, Lit("out"), SpaceStar, Lit("now"), Close>>,
       <<Open, Lit("new"), Close>> >>

JunkPatterns ==
    OfficialPatterns \o LyricsPatterns \o QualityPatterns \o PlatformPatterns
        \o PromoPatterns

\* (ft\.?|feat\.?|featuring)
FeatWord ==
    Alt(<< <<Lit("ft"), Opt(".")>>, <<Lit("feat"), Opt(".")>>, <<Lit("featuring")>> >>)

\* \s*\(\s*(ft\.?|feat\.?|featuring)\s+([^)]+)\)
FeatParenPattern ==
    <<SpaceStar, Lit("("), SpaceStar, FeatWord, SpacePlus,
      Capture(Rep(NoneOf({")"}), 1, Unbounded, FALSE)), Lit(")")>>

\* \s+(ft\.?|feat\.?|featuring)\s+
FeatBarePattern == <<SpacePlus, FeatWord, SpacePlus>>

Removed == Template("", FALSE)

\* TLC computes an operator's argument only where it is first used; Then
\* names a value that is computed before the next step starts, so that the
\* steps of a pipeline run one after the other instead of nested.
Then(value, next(_)) == IF value = value THEN next(value) ELSE next(value)

\* for pattern in patterns: text = re.sub(pattern, "", text)
RECURSIVE ApplyPatterns(_, _, _)
ApplyPatterns(patterns, i, text) ==
    IF i > Len(patterns) THEN text
    ELSE Then(ReSub(patterns[i], Removed, text),
              LAMBDA replaced : ApplyPatterns(patterns, i + 1, replaced))

\* The text is lowercased before any pattern runs, and every pattern is
\* written in lower case, so re.IGNORECASE changes nothing for it.
normalize_text(text) ==
    IF text = "" THEN ""
    ELSE Then(Lower(text), LAMBDA lowered :
         Then(ApplyPatterns(JunkPatterns, 1, lowered), LAMBDA junked :
         Then(ReSub(FeatParenPattern, Template(" feat. ", TRUE), junked), LAMBDA paren :
         Then(ReSub(FeatBarePattern, Template(" feat. ", FALSE), paren), LAMBDA bare :
         Then(ReSub(<<SpacePlus>>, Template(" ", FALSE), bare), LAMBDA spaced :
         Strip(spaced))))))

(***************************************************************************)
(* Optional values, paths and the file system                              *)
(***************************************************************************)
\* Optional[str]: <<>> is None, <<s>> is the string s.
None == <<>>

Some(s) == <<s>>

\* Python's truth value of an Optional[str].
Truthy(v) == v # None /\ v[1] # ""

\* A path: a directory, a file name, and whether it is spelled relative to
\* the working directory.  Path.resolve() gives the absolute spelling.
PathOf(dir, name, rel) == [dir |-> dir, name |-> name, rel |-> rel]

resolve(p) == [p EXCEPT !.rel = FALSE]

LibraryDir == "lib"

DownloadDir == "dl"

\* The names a directory listing returns, in listing order.
LibraryNames == <<"a.mp3", "b.M4A", "c.Mp3">>

DownloadNames == <<"new.m4a">>

\* The output directory of a downloader, which is also its library: the
\* temporary file of a download and the names create_filename gives.
OutputDir == "out"

OutputNames ==
    <<".tmp_vid.m4a", "Artist - Song.m4a", "Artist - Song.mp3",
      "ARTIST - Song [HD].m4a", "ARTIST - Song [HD].mp3",
      "Uploader - Video.m4a", "Unknown - tmp_vid.m4a",
      "Artist - Song (Live).m4a", "unknown.m4a">>

Listing(dir) ==
    IF dir = LibraryDir THEN LibraryNames
    ELSE IF dir = OutputDir THEN OutputNames
    ELSE DownloadNames

Range(seq) == {seq[i] : i \in 1..Len(seq)}

AbsPaths ==
    {PathOf(LibraryDir, n, FALSE) : n \in Range(LibraryNames)}
        \cup {PathOf(DownloadDir, n, FALSE) : n \in Range(DownloadNames)}

OutPaths == {PathOf(OutputDir, n, FALSE) : n \in Range(OutputNames)}

NoFile == [kind |-> "absent"]

\* A file MutagenFile knows no container for: it returns None.
Unrecognized == [kind |-> "unrecognized"]

\* A file the tag reader fails on: MutagenFile raises.
Unreadable == [kind |-> "unreadable"]

Audio(tags) == [kind |-> "audio", tags |-> tags]

\* The tag sets of the files of the model.  A tag maps to the list of its
\* values; a missing key is a tag the file does not carry.
TagsSong == [artist |-> <<"Artist">>, title |-> <<"Song">>]

TagsSongHD == [artist |-> <<"ARTIST">>, title |-> <<"Song [HD]">>]

TagsLive == [artist |-> <<"Artist">>, title |-> <<"Song (Live)">>]

TagsJunkOnly == [artist |-> <<"Artist">>, title |-> <<"[HD]">>]

TagsNoTitle == [artist |-> <<"Artist">>]

TagsTwoArtists == [artist |-> <<"Artist", "Guest">>, title |-> <<"Song">>]

TagsEmptyArtist == [artist |-> <<>>, title |-> <<"Song">>]

TagsOther == [album |-> <<"Album">>]

LibraryTags == {TagsSong, TagsSongHD, TagsLive, TagsJunkOnly, TagsNoTitle}

DownloadTags == {TagsSongHD, TagsLive, TagsNoTitle}

\* The tags each file of the model may start with.
InitialTags(p) ==
    CASE p.name = "a.mp3" -> {TagsSong, TagsLive, TagsNoTitle, TagsJunkOnly}
      [] p.name = "b.M4A" -> {TagsSong, TagsSongHD, TagsJunkOnly}
      [] p.name = "c.Mp3" -> {TagsSong}
      [] OTHER            -> DownloadTags

VARIABLES
    fs,           \* absolute path -> NoFile or an audio file with its tags
    undeletable,  \* the paths whose unlink() raises
    pc,           \* "idle", or "input" while check_file_duplicate waits in input()
    op,           \* the operation called last, with its arguments
    fs0,          \* the file system when that operation was called
    duplicates,   \* the list of matches the operation computed
    groups,       \* the mapping scan_library returned
    ret,          \* "-", "True", "False", "None", "list", "dict" or "raised"
    extracted,    \* how many times the operation called extract_metadata
    attempted,    \* the paths the operation called unlink() on, in order
    invalid,      \* the invalid lines read at the current prompt
    line,         \* the line input() returned last, "" before any
    choice,       \* the valid choice read at the prompt, "" before it
    log,          \* what the operation printed, in order
    metadata,     \* the pair extract_metadata returned when called on its own
    memo,         \* normalize_text on the tag and query strings, computed once
    tokens,       \* normalizer runs: the pieces of the input text
    input,        \* normalizer runs: the input text
    normalized,   \* normalizer runs: normalize_text(input), None before the call
    renormalized, \* normalizer runs: normalize_text of that, None before the call
    clock,        \* time.monotonic(), in ticks
    limiter,      \* the fields of the RateLimiter
    threads,      \* thread -> its call on the limiter and its place in it
    spotify,      \* SpotifyDownloader.download: its songs, its place, what it did
    csv           \* the review CSV: whether the file exists, and its rows

vars ==
    <<fs, undeletable, pc, op, fs0, duplicates, groups, ret, extracted,
      attempted, invalid, line, choice, log, metadata, memo, tokens, input,
      normalized, renormalized, clock, limiter, threads, spotify, csv>>

fsVars ==
    <<fs, undeletable, pc, op, fs0, duplicates, groups, ret, extracted,
      attempted, invalid, line, choice, log, metadata, memo>>

normVars == <<tokens, input, normalized, renormalized>>

limiterVars == <<clock, limiter, threads>>

\* The variables of the other components of the package.
otherVars == <<limiterVars, spotify, csv>>

(***************************************************************************)
(* extract_metadata, normalize_metadata                                    *)
(***************************************************************************)
\* audio.get(key, [None])[0] if key in audio else None
FirstValue(tags, key) ==
    IF key \in DOMAIN tags THEN Some(tags[key][1]) ELSE None

\* The body of the try block: MutagenFile raises for a missing or unreadable
\* file and returns None for an unrecognized one; [None][0] and the first
\* value of a tag are read, and indexing an empty value list raises.
ReadTags(files, file_path) ==
    LET f == files[resolve(file_path)]
        Raised == [raised |-> TRUE, value |-> <<None, None>>]
        Returned(v) == [raised |-> FALSE, value |-> v]
    IN  IF f.kind \in {"absent", "unreadable"} THEN Raised
        ELSE IF f.kind = "unrecognized" THEN Returned(<<None, None>>)
        ELSE IF DOMAIN f.tags = {} THEN Returned(<<None, None>>)
        ELSE IF \E k \in {"artist", "title"} \cap DOMAIN f.tags : f.tags[k] = <<>>
        THEN Raised
        ELSE Returned(<<FirstValue(f.tags, "artist"), FirstValue(f.tags, "title")>>)

\* Faulty variant of the handler: the exception leaves the function.
Unhandled(outcome) == outcome

\* except Exception: return None, None
Handled(outcome) ==
    IF outcome.raised THEN [raised |-> FALSE, value |-> <<None, None>>]
    ELSE outcome

\* How a call of extract_metadata ends: raised or not, and the pair.
ExtractOutcome(files, file_path) == Handled(ReadTags(files, file_path))

extract_metadata(files, file_path) == ExtractOutcome(files, file_path).value

\* The (artist, title) queries find_duplicates is called with directly.
FindQueries ==
    {<<"Artist", "Song [Official Video]">>, <<"artist", "Song (Live)">>,
     <<"Artist", "">>, <<"", "Song">>, <<"[HD]", "Song">>, <<"Artist", "Other">>}

\* Every tag value and query string of the model.
TagStrings ==
    UNION {UNION {Range(t[k]) : k \in DOMAIN t} : t \in LibraryTags \cup DownloadTags}
        \cup UNION {{q[1], q[2]} : q \in FindQueries}

\* normalize_text on the strings of the model: the pairs
\* <<s, normalize_text(s)>>.  normalize_text is pure, so the operations
\* read its results from memo, which starts as this table.
NormalizedTags == {<<s, normalize_text(s)>> : s \in TagStrings}

Normalize(s) == (CHOOSE pair \in memo : pair[1] = s)[2]

OrEmpty(v) == IF v = None THEN "" ELSE v[1]

normalize_metadata(artist, title) ==
    <<Normalize(OrEmpty(artist)), Normalize(OrEmpty(title))>>

(***************************************************************************)
(* find_duplicates                                                         *)
(***************************************************************************)
EndsWith(s, suffix) ==
    /\ Len(suffix) <= Len(s)
    /\ SubSeq(s, Len(s) - Len(suffix) + 1, Len(s)) = suffix

\* fnmatch of a name against "*<suffix>", case-sensitive as Path.glob is on
\* a POSIX system.
FnMatch(name, pattern) == EndsWith(name, Tail(pattern))

\* library_dir.glob(pattern): the existing files of the directory whose
\* name matches, as library_dir / name.
glob(files, dir, pattern) ==
    LET names == SelectSeq(Listing(dir),
                     LAMBDA n : /\ files[PathOf(dir, n, FALSE)] # NoFile
                                /\ FnMatch(n, pattern))
    IN  [i \in 1..Len(names) |-> PathOf(dir, names[i], FALSE)]

AudioPatterns == <<"*.m4a", "*.M4A", "*.mp3", "*.MP3">>

RECURSIVE Flatten(_)
Flatten(seqs) == IF seqs = <<>> THEN <<>> ELSE Head(seqs) \o Flatten(Tail(seqs))

\* for pattern in [...]: for file_path in library_dir.glob(pattern): ...
ScannedFiles(files, dir) ==
    Flatten([i \in 1..Len(AudioPatterns) |-> glob(files, dir, AudioPatterns[i])])

\* The list find_duplicates returns and the number of extract_metadata
\* calls it makes.
find_duplicates(artist, title, library_dir, files) ==
    IF artist = "" \/ title = "" THEN [list |-> <<>>, extracted |-> 0]
    ELSE LET norm == normalize_metadata(Some(artist), Some(title))
         IN  IF norm[1] = "" \/ norm[2] = "" THEN [list |-> <<>>, extracted |-> 0]
             ELSE LET scanned == ScannedFiles(files, library_dir)
                      Matches(file_path) ==
                          LET existing == extract_metadata(files, file_path)
                          IN  normalize_metadata(existing[1], existing[2]) = norm
                  IN  [list |-> SelectSeq(scanned, Matches),
                       extracted |-> Len(scanned)]

\* Faulty variants of the self-filter: one that filters nothing, one that
\* compares the paths as they are spelled.
KeepAll(list, file_path) == list

ExcludeSame(list, file_path) == SelectSeq(list, LAMBDA d : d # file_path)

\* duplicates = [d for d in duplicates if d.resolve() != file_path.resolve()]
ExcludeSelf(list, file_path) ==
    SelectSeq(list, LAMBDA d : resolve(d) # resolve(file_path))

(***************************************************************************)
(* The replace loop: for dup in duplicates: dup.unlink()                   *)
(***************************************************************************)
\* Faulty variant of the replace loop: it removes nothing.
UnlinkNothing(list, i, files, tried) ==
    [fs |-> files, attempted |-> <<>>, raised |-> FALSE]

\* Faulty variant of the replace loop: it stops after the first file.
UnlinkFirst(list, i, files, tried) ==
    IF list[1] \in undeletable \/ files[list[1]] = NoFile
    THEN [fs |-> files, attempted |-> <<list[1]>>, raised |-> TRUE]
    ELSE [fs |-> [files EXCEPT ![list[1]] = NoFile], attempted |-> <<list[1]>>,
          raised |-> FALSE]

\* unlink() raises for a path that cannot be removed or does not exist;
\* the loop has no handler, so the first raise ends it.
RECURSIVE UnlinkAll(_, _, _, _)
UnlinkAll(list, i, files, tried) ==
    IF i > Len(list) THEN [fs |-> files, attempted |-> tried, raised |-> FALSE]
    ELSE IF list[i] \in undeletable \/ files[list[i]] = NoFile
    THEN [fs |-> files, attempted |-> Append(tried, list[i]), raised |-> TRUE]
    ELSE UnlinkAll(list, i + 1, [files EXCEPT ![list[i]] = NoFile],
                   Append(tried, list[i]))

(***************************************************************************)
(* scan_library                                                            *)
(***************************************************************************)
TrackKey(files, file_path) ==
    LET md == extract_metadata(files, file_path)
        norm == normalize_metadata(md[1], md[2])
    IN  norm[1] \o "|||" \o norm[2]

\* tracks: key -> the files with artist and title, in scan order; the
\* result keeps the keys that hold more than one file.
scan_library(library_dir, files) ==
    LET scanned == ScannedFiles(files, library_dir)
        Tagged(file_path) ==
            LET md == extract_metadata(files, file_path)
            IN  Truthy(md[1]) /\ Truthy(md[2])
        tagged == SelectSeq(scanned, Tagged)
        keys == {TrackKey(files, f) : f \in Range(tagged)}
        tracks == [k \in keys |->
                      SelectSeq(tagged, LAMBDA f : TrackKey(files, f) = k)]
    IN  [key \in {k \in keys : Len(tracks[k]) > 1} |-> tracks[key]]

(***************************************************************************)
(* Bounds and inputs of the model                                          *)
(***************************************************************************)
\* How many files of the library may refuse to be removed.
MaxUndeletable == 1

\* How many invalid lines the operator may type at one prompt.
MaxInvalid == 2

LibraryPaths == {PathOf(LibraryDir, n, FALSE) : n \in Range(LibraryNames)}

DownloadPath == PathOf(DownloadDir, DownloadNames[1], FALSE)

\* The file_path arguments: the download, and two files of the library
\* itself, one of them also spelled relative to the working directory.
CandidatePaths ==
    {DownloadPath, PathOf(LibraryDir, LibraryNames[1], FALSE),
     PathOf(LibraryDir, LibraryNames[1], TRUE), PathOf(LibraryDir, LibraryNames[2], FALSE)}

Handlings == {"skip", "keep", "interactive"}

\* The lines the operator may type.
InputLines == {"s", " S ", "k", "K", "r", "R\t", "", "x", "rs", "skip"}

(***************************************************************************)
(* RateLimiter: the token bucket, in fixed point                           *)
(***************************************************************************)
\* The clock ticks twice a second, and rates are counted in halves of a
\* call per second: a token is Unit units, and a limiter of rate r gains
\* r units a tick.
TicksPerSecond == 2

RateDenominator == 2

Unit == TicksPerSecond * RateDenominator

\* The threads that call the limiter.
Threads == {1, 2}

NoThread == 0

NoTimeout == 0 - 1

\* The limiters of the model as (calls_per_second in halves, burst_size),
\* burst_size 0 standing for None: 2.0/s with burst 2, 0.5/s with burst 1,
\* 1.0/s and 0.5/s without a burst size.
LimiterConfigs == {<<4, 2>>, <<1, 1>>, <<2, 0>>, <<1, 0>>}

\* self.burst = burst_size or int(calls_per_second)
BurstOf(calls_per_second, burst_size) ==
    IF burst_size # 0 THEN burst_size ELSE calls_per_second \div RateDenominator

\* __init__: a full bucket, stamped with the time of construction.
RateLimiter(calls_per_second, burst_size, time) ==
    [rate |-> calls_per_second,
     burst |-> BurstOf(calls_per_second, burst_size),
     tokens |-> BurstOf(calls_per_second, burst_size) * Unit,
     last_update |-> time,
     lock |-> NoThread,
     call_times |-> <<>>]

\* A thread outside every call.
Idle == [pc |-> "idle", call |-> "none", blocking |-> FALSE, timeout |-> NoTimeout,
         start_time |-> 0, now |-> 0, wake |-> 0, result |-> "-"]

\* The limiter module before any thread has called it.
LimiterResting ==
    /\ clock = 0
    /\ limiter = RateLimiter(2, 1, 0)
    /\ threads = [t \in Threads |-> Idle]

\* SpotifyDownloader outside download().
NoDownload ==
    [pc |-> "none", songs |-> <<>>, smart |-> FALSE, idx |-> 0, events |-> <<>>,
     success |-> 0, failed |-> 0]

\* No review CSV on disk.
NoCsv == [exists |-> FALSE, rows |-> <<>>]

OthersResting ==
    /\ LimiterResting
    /\ spotify = NoDownload
    /\ csv = NoCsv

(***************************************************************************)
(* The duplicate module as a state machine                                 *)
(***************************************************************************)
Init ==
    /\ fs \in {f \in [AbsPaths -> {Audio(t) : t \in LibraryTags \cup DownloadTags}] :
                  \A p \in AbsPaths : f[p].tags \in InitialTags(p)}
    /\ undeletable \in {u \in SUBSET LibraryPaths : Cardinality(u) <= MaxUndeletable}
    /\ pc = "idle"
    /\ op = [name |-> "none"]
    /\ fs0 = fs
    /\ duplicates = <<>>
    /\ groups = <<>>
    /\ ret = "-"
    /\ extracted = 0
    /\ attempted = <<>>
    /\ invalid = 0
    /\ line = ""
    /\ choice = ""
    /\ log = <<>>
    /\ metadata = <<None, None>>
    /\ memo = NormalizedTags
    /\ OthersResting
    /\ tokens = <<>>
    /\ input = ""
    /\ normalized = None
    /\ renormalized = None

\* What every call sets on entry.
Enter(call) ==
    /\ pc = "idle"
    /\ op' = call
    /\ fs0' = fs
    /\ invalid' = 0
    /\ line' = ""
    /\ choice' = ""
    /\ attempted' = <<>>
    /\ UNCHANGED <<undeletable, memo, normVars, otherVars>>

\* The comparison the interactive mode prints before it prompts.
Comparison(dups) ==
    <<"Duplicate track detected!", "New file", "Existing files">>
        \o [i \in 1..Len(dups) |-> "Existing: " \o dups[i].name]
        \o <<"What would you like to do?">>

\* Faulty variant of the policy dispatch: skip and keep exchanged.
PolicyInverted(handling) ==
    CASE handling = "skip" -> "False"
      [] handling = "keep" -> "True"
      [] OTHER             -> "prompt"

\* if duplicate_handling == "skip": return True
\* elif duplicate_handling == "keep": return False
\* otherwise the interactive mode prompts.
PolicyOutcome(handling) ==
    CASE handling = "skip" -> "True"
      [] handling = "keep" -> "False"
      [] OTHER             -> "prompt"

check_file_duplicate(file_path, library_dir, handling) ==
    /\ Enter([name |-> "check_file_duplicate", file_path |-> file_path,
              handling |-> handling])
    /\ UNCHANGED metadata
    /\ groups' = <<>>
    /\ UNCHANGED fs
    /\ LET md == extract_metadata(fs, file_path)
           found == find_duplicates(md[1][1], md[2][1], library_dir, fs)
           dups == ExcludeSelf(found.list, file_path)
       IN  IF ~Truthy(md[1]) \/ ~Truthy(md[2])
           THEN /\ ret' = "False" /\ pc' = "idle" /\ duplicates' = <<>>
                /\ extracted' = 1 /\ log' = <<>>
           ELSE IF dups = <<>>
           THEN /\ ret' = "False" /\ pc' = "idle" /\ duplicates' = dups
                /\ extracted' = 1 + found.extracted /\ log' = <<>>
           ELSE IF PolicyOutcome(handling) = "True"
           THEN /\ ret' = "True" /\ pc' = "idle" /\ duplicates' = dups
                /\ extracted' = 1 + found.extracted
                /\ log' = <<"Duplicate found: " \o file_path.name>>
           ELSE IF PolicyOutcome(handling) = "False"
           THEN /\ ret' = "False" /\ pc' = "idle" /\ duplicates' = dups
                /\ extracted' = 1 + found.extracted /\ log' = <<>>
           ELSE /\ ret' = "-" /\ pc' = "input" /\ duplicates' = dups
                /\ extracted' = 1 + found.extracted + Len(dups)
                /\ log' = Comparison(dups) \o <<"Choice [s/k/r]: ">>

\* Faulty variant of the line reader: the line as typed.
ReadRaw(typed) == typed

\* choice = input("Choice [s/k/r]: ").lower().strip()
ReadChoice(typed) == Strip(Lower(typed))

\* One line read by input() in the loop of the interactive mode.
InputLine(typed) ==
    /\ pc = "input"
    /\ line' = typed
    /\ UNCHANGED <<undeletable, op, fs0, duplicates, groups, extracted,
                   metadata, memo, normVars, otherVars>>
    /\ LET c == ReadChoice(typed)
       IN  IF c = "s"
           THEN /\ ret' = "True" /\ pc' = "idle" /\ choice' = c
                /\ UNCHANGED <<fs, attempted, invalid, log>>
           ELSE IF c = "k"
           THEN /\ ret' = "False" /\ pc' = "idle" /\ choice' = c
                /\ UNCHANGED <<fs, attempted, invalid, log>>
           ELSE IF c = "r"
           THEN LET u == UnlinkAll(duplicates, 1, fs, <<>>)
                IN  /\ fs' = u.fs
                    /\ attempted' = u.attempted
                    /\ ret' = IF u.raised THEN "raised" ELSE "False"
                    /\ pc' = "idle" /\ choice' = c
                    /\ log' = log \o [i \in 1..Len(u.attempted) |->
                                         "Removing: " \o u.attempted[i].name]
                    /\ UNCHANGED invalid
           ELSE /\ invalid < MaxInvalid
                /\ invalid' = invalid + 1
                /\ log' = log \o <<"Invalid choice. Please enter s, k, or r.",
                                   "Choice [s/k/r]: ">>
                /\ UNCHANGED <<fs, pc, ret, attempted, choice>>

\* find_duplicates called directly (as SpotifyDownloader does).
FindDuplicates(artist, title) ==
    /\ Enter([name |-> "find_duplicates", artist |-> artist, title |-> title])
    /\ UNCHANGED metadata
    /\ LET found == find_duplicates(artist, title, LibraryDir, fs)
       IN  /\ duplicates' = found.list
           /\ extracted' = found.extracted
    /\ ret' = "list" /\ pc' = "idle" /\ groups' = <<>> /\ log' = <<>>
    /\ UNCHANGED fs

ScanLibrary ==
    /\ Enter([name |-> "scan_library"])
    /\ UNCHANGED metadata
    /\ groups' = scan_library(LibraryDir, fs)
    /\ extracted' = Len(ScannedFiles(fs, LibraryDir))
    /\ log' = IF DOMAIN groups' = {} THEN <<"No duplicates found">>
              ELSE <<"Found duplicate groups">>
    /\ ret' = "dict" /\ pc' = "idle" /\ duplicates' = <<>>
    /\ UNCHANGED fs

\* Faulty variant of check_file: it removes the duplicates it reports.
check_file_unlinking(file_path) ==
    /\ Enter([name |-> "check_file", file_path |-> file_path])
    /\ UNCHANGED metadata
    /\ LET md == extract_metadata(fs, file_path)
           found == find_duplicates(md[1][1], md[2][1], LibraryDir, fs)
           dups == ExcludeSelf(found.list, file_path)
       IN  IF ~Truthy(md[1]) \/ ~Truthy(md[2])
           THEN /\ duplicates' = <<>> /\ extracted' = 1 /\ fs' = fs
                /\ log' = <<"Could not extract metadata">>
           ELSE /\ duplicates' = dups /\ extracted' = 1 + found.extracted
                /\ fs' = [p \in AbsPaths |-> IF p \in Range(dups) THEN NoFile ELSE fs[p]]
                /\ log' = <<"No duplicates found">>
    /\ ret' = "None" /\ pc' = "idle" /\ groups' = <<>>

check_file(file_path) ==
    /\ Enter([name |-> "check_file", file_path |-> file_path])
    /\ UNCHANGED metadata
    /\ LET md == extract_metadata(fs, file_path)
           found == find_duplicates(md[1][1], md[2][1], LibraryDir, fs)
           dups == ExcludeSelf(found.list, file_path)
       IN  IF ~Truthy(md[1]) \/ ~Truthy(md[2])
           THEN /\ duplicates' = <<>> /\ extracted' = 1
                /\ log' = <<"Could not extract metadata">>
           ELSE /\ duplicates' = dups /\ extracted' = 1 + found.extracted
                /\ log' = IF dups = <<>> THEN <<"No duplicates found">>
                          ELSE <<"Found duplicate(s)">>
                                  \o [i \in 1..Len(dups) |-> dups[i].name]
    /\ ret' = "None" /\ pc' = "idle" /\ groups' = <<>>
    /\ UNCHANGED fs

Next ==
    \/ \E p \in CandidatePaths, h \in Handlings :
          check_file_duplicate(p, LibraryDir, h)
    \/ \E typed \in InputLines : InputLine(typed)
    \/ \E q \in FindQueries : FindDuplicates(q[1], q[2])
    \/ ScanLibrary
    \/ \E p \in CandidatePaths : check_file(p)

Spec == Init /\ [][Next]_vars

(***************************************************************************)
(* normalize_text on its own: the inputs are built from pieces that carry  *)
(* the annotations the patterns look for                                   *)
(***************************************************************************)
\* How many pieces an input text is built from.
MaxTokens == 3

Vocabulary ==
    {"Song", " (Live)", " (Music Video)", " [HD]", " [Lyrics]", " ft. X",
     " (Feat. X)", " - Topic", "  "}

RECURSIVE Join(_)
Join(pieces) == IF pieces = <<>> THEN "" ELSE Head(pieces) \o Join(Tail(pieces))

InitNorm ==
    /\ tokens \in UNION {[1..n -> Vocabulary] : n \in 0..MaxTokens}
    /\ input = Join(tokens)
    /\ normalized = None
    /\ renormalized = None
    /\ fs = [p \in AbsPaths |-> Audio(TagsSong)]
    /\ undeletable = {}
    /\ pc = "idle"
    /\ op = [name |-> "none"]
    /\ fs0 = fs
    /\ duplicates = <<>>
    /\ groups = <<>>
    /\ ret = "-"
    /\ extracted = 0
    /\ attempted = <<>>
    /\ invalid = 0
    /\ line = ""
    /\ choice = ""
    /\ log = <<>>
    /\ metadata = <<None, None>>
    /\ memo = NormalizedTags
    /\ OthersResting

\* normalized = normalize_text(input)
NormalizeText ==
    /\ normalized = None
    /\ normalized' = Some(normalize_text(input))
    /\ UNCHANGED <<tokens, input, renormalized, fsVars, otherVars>>

\* renormalized = normalize_text(normalized)
NormalizeAgain ==
    /\ normalized # None
    /\ renormalized = None
    /\ renormalized' = Some(normalize_text(normalized[1]))
    /\ UNCHANGED <<tokens, input, normalized, fsVars, otherVars>>

NextNorm == NormalizeText \/ NormalizeAgain

SpecNorm == InitNorm /\ [][NextNorm]_vars

(***************************************************************************)
(* extract_metadata on its own, over files the tag reader fails on         *)
(***************************************************************************)
\* What the file a call reads may be.
ReadableFiles ==
    {NoFile, Unrecognized, Unreadable}
        \cup {Audio(t) : t \in {TagsSong, TagsNoTitle, TagsTwoArtists,
                                TagsEmptyArtist, TagsOther}}

InitExtract ==
    /\ fs \in {f \in [AbsPaths -> ReadableFiles] :
                  \A p \in LibraryPaths : f[p] \in {NoFile, Audio(TagsSong)}}
    /\ undeletable = {}
    /\ pc = "idle"
    /\ op = [name |-> "none"]
    /\ fs0 = fs
    /\ duplicates = <<>>
    /\ groups = <<>>
    /\ ret = "-"
    /\ extracted = 0
    /\ attempted = <<>>
    /\ invalid = 0
    /\ line = ""
    /\ choice = ""
    /\ log = <<>>
    /\ metadata = <<None, None>>
    /\ memo = NormalizedTags
    /\ OthersResting
    /\ tokens = <<>>
    /\ input = ""
    /\ normalized = None
    /\ renormalized = None

\* artist, title = extract_metadata(file_path)
ExtractMetadata(file_path) ==
    /\ Enter([name |-> "extract_metadata", file_path |-> file_path])
    /\ LET outcome == ExtractOutcome(fs, file_path)
       IN  /\ metadata' = outcome.value
           /\ ret' = IF outcome.raised THEN "raised" ELSE "tuple"
    /\ extracted' = 1
    /\ pc' = "idle"
    /\ UNCHANGED <<fs, duplicates, groups, log>>

NextExtract == \E p \in CandidatePaths : ExtractMetadata(p)

SpecExtract == InitExtract /\ [][NextExtract]_vars

(***************************************************************************)
(* The identifier matchers: find_duplicates_by_isrc and                    *)
(* find_duplicates_by_track_url                                            *)
(***************************************************************************)
UrlA == "https://open.spotify.com/track/123"

UrlB == "https://open.spotify.com/track/456"

UrlC == "https://open.spotify.com/track/abc"

UrlCUpper == "https://open.spotify.com/track/ABC"

\* The tags each library file may carry: an ISRC, a track URL, both or
\* neither.
IdentTagsOf(p) ==
    CASE p.name = "a.mp3" ->
             {[isrc |-> <<"USRC12345678">>, track_url |-> <<UrlA>>],
              [isrc |-> <<"usrc12345678">>, track_url |-> <<UrlA \o "/">>],
              [track_url |-> <<UrlC>>],
              TagsSong}
      [] p.name = "b.M4A" ->
             {[isrc |-> <<"usrc12345678">>, track_url |-> <<UrlA \o "/">>],
              [isrc |-> <<"USRC87654321">>, track_url |-> <<UrlB>>],
              [isrc |-> <<"USRC12345678">>],
              [track_url |-> <<UrlA \o "?si=abc123">>]}
      [] p.name = "c.Mp3" ->
             {[isrc |-> <<"USRC12345678">>, track_url |-> <<UrlA>>],
              [track_url |-> <<UrlA \o "//">>]}
      [] OTHER -> {TagsSong}

IdentTags == UNION {IdentTagsOf(p) : p \in AbsPaths}

IsrcQueries == {"", "USRC12345678", "usrc12345678", "USRC87654321", "USRC00000000"}

UrlQueries ==
    {"", UrlA, UrlA \o "/", UrlA \o "?si=abc123", UrlA \o "//",
     UrlA \o "/?si=abc123", UrlB, UrlC, UrlCUpper}

\* The audio files of a directory in listing order, whatever the case of
\* their extension.
AudioList(files, dir) ==
    LET names == SelectSeq(Listing(dir),
                     LAMBDA n : /\ files[PathOf(dir, n, FALSE)].kind = "audio"
                                /\ \/ EndsWith(Lower(n), ".mp3")
                                   \/ EndsWith(Lower(n), ".m4a"))
    IN  [i \in 1..Len(names) |-> PathOf(dir, names[i], FALSE)]

\* The first value of an identifier tag of a file, None when it has none.
StoredTag(files, file_path, key) ==
    LET f == files[resolve(file_path)]
    IN  IF f.kind = "audio" /\ key \in DOMAIN f.tags /\ f.tags[key] # <<>>
        THEN Some(f.tags[key][1])
        ELSE None

\* Faulty variant of the ISRC comparison: letter case counts.
IsrcIdentical(stored, isrc) == stored = isrc

\* ISRCs match case-insensitively.
IsrcEqual(stored, isrc) == Lower(stored) = Lower(isrc)

find_duplicates_by_isrc(isrc, library_dir, files) ==
    IF isrc = "" THEN <<>>
    ELSE SelectSeq(AudioList(files, library_dir),
             LAMBDA p : /\ StoredTag(files, p, "isrc") # None
                        /\ IsrcEqual(StoredTag(files, p, "isrc")[1], isrc))

\* Faulty variant of the slash rule: every trailing slash goes.
RECURSIVE StripEverySlash(_)
StripEverySlash(url) ==
    IF Len(url) > 0 /\ CharAt(url, Len(url)) = "/"
    THEN StripEverySlash(SubSeq(url, 1, Len(url) - 1))
    ELSE url

\* Strip exactly one trailing slash.
StripSlash(url) ==
    IF Len(url) > 0 /\ CharAt(url, Len(url)) = "/"
    THEN SubSeq(url, 1, Len(url) - 1)
    ELSE url

\* Strip any query string: what follows the first '?', and the '?'.
StripQuery(url) ==
    LET marks == {i \in 1..Len(url) : CharAt(url, i) = "?"}
    IN  IF marks = {} THEN url ELSE SubSeq(url, 1, Min(marks) - 1)

\* Strip one trailing slash, strip the query string, lowercase.
CanonicalUrl(url) == Lower(StripQuery(StripSlash(url)))

find_duplicates_by_track_url(track_url, library_dir, files) ==
    IF track_url = "" THEN <<>>
    ELSE SelectSeq(AudioList(files, library_dir),
             LAMBDA p : /\ StoredTag(files, p, "track_url") # None
                        /\ CanonicalUrl(StoredTag(files, p, "track_url")[1])
                               = CanonicalUrl(track_url))

InitIdent ==
    /\ fs \in {f \in [AbsPaths -> {Audio(t) : t \in IdentTags}] :
                  \A p \in AbsPaths : f[p].tags \in IdentTagsOf(p)}
    /\ undeletable = {}
    /\ pc = "idle"
    /\ op = [name |-> "none"]
    /\ fs0 = fs
    /\ duplicates = <<>>
    /\ groups = <<>>
    /\ ret = "-"
    /\ extracted = 0
    /\ attempted = <<>>
    /\ invalid = 0
    /\ line = ""
    /\ choice = ""
    /\ log = <<>>
    /\ metadata = <<None, None>>
    /\ memo = NormalizedTags
    /\ OthersResting
    /\ tokens = <<>>
    /\ input = ""
    /\ normalized = None
    /\ renormalized = None

FindByIsrc(isrc) ==
    /\ Enter([name |-> "find_duplicates_by_isrc", isrc |-> isrc])
    /\ duplicates' = find_duplicates_by_isrc(isrc, LibraryDir, fs)
    /\ ret' = "list" /\ pc' = "idle"
    /\ UNCHANGED <<fs, groups, extracted, log, metadata>>

FindByTrackUrl(track_url) ==
    /\ Enter([name |-> "find_duplicates_by_track_url", track_url |-> track_url])
    /\ duplicates' = find_duplicates_by_track_url(track_url, LibraryDir, fs)
    /\ ret' = "list" /\ pc' = "idle"
    /\ UNCHANGED <<fs, groups, extracted, log, metadata>>

NextIdent ==
    \/ \E isrc \in IsrcQueries : FindByIsrc(isrc)
    \/ \E track_url \in UrlQueries : FindByTrackUrl(track_url)

SpecIdent == InitIdent /\ [][NextIdent]_vars

\* The duplicate resolver at rest, for the runs of normalize_text alone.
Resting ==
    /\ fs = [p \in AbsPaths |-> Audio(TagsSong)]
    /\ undeletable = {}
    /\ pc = "idle"
    /\ op = [name |-> "none"]
    /\ fs0 = fs
    /\ duplicates = <<>>
    /\ groups = <<>>
    /\ ret = "-"
    /\ extracted = 0
    /\ attempted = <<>>
    /\ invalid = 0
    /\ line = ""
    /\ choice = ""
    /\ log = <<>>
    /\ metadata = <<None, None>>
    /\ memo = NormalizedTags

(***************************************************************************)
(* normalize_text on texts that credit a guest: the artist, the guest in   *)
(* one of the six spellings, and what follows                              *)
(***************************************************************************)
Artists == {"Artist", "DJ Snake"}

Guests == {"Guest", "X", "Audio Push"}

\* What is written before and after the guest.
FeatSpellings ==
    {<<" ft. ", "">>, <<" feat. ", "">>, <<" featuring ", "">>,
     <<" (ft. ", ")">>, <<" (feat. ", ")">>, <<" (featuring ", ")">>}

Tails == {"", " (Live)"}

InitFeat ==
    /\ tokens \in {<<a, sp[1], g, sp[2], t>> :
                      a \in Artists, g \in Guests, sp \in FeatSpellings, t \in Tails}
    /\ input = Join(tokens)
    /\ normalized = None
    /\ renormalized = None
    /\ Resting
    /\ OthersResting

SpecFeat == InitFeat /\ [][NextNorm]_vars

(***************************************************************************)
(* normalize_text on a plain title followed by junk annotations            *)
(***************************************************************************)
\* How many annotations follow the title.
MaxAnnotations == 2

Titles == {"Song", "Title Two"}

\* Annotations of the junk categories, bracketed and parenthesized.
JunkAnnotations ==
    {" [Official Video]", " (Official Audio)", " (Music Video)", " [Lyrics]",
     " (Lyric Video)", " [Visualizer]", " [Music Visualizer]", " [HD]",
     " (4K)", " [High Quality]", " [Premium]", " [Free Download]",
     " (Click to Download)", " [Out Now]", " (New)"}

InitJunk ==
    /\ tokens \in {<<t>> \o a :
                      t \in Titles,
                      a \in UNION {[1..n -> JunkAnnotations] : n \in 0..MaxAnnotations}}
    /\ input = Join(tokens)
    /\ normalized = None
    /\ renormalized = None
    /\ Resting
    /\ OthersResting

SpecJunk == InitJunk /\ [][NextNorm]_vars

(***************************************************************************)
(* RateLimiter.acquire and get_stats, one thread step at a time            *)
(***************************************************************************)
\* How far the clock of the model runs.
MaxClock == 4

\* Everything but the limiter.
exceptLimiter == <<fsVars, normVars, spotify, csv>>

CeilDiv(a, b) == (a + b - 1) \div b

Smaller(a, b) == IF a <= b THEN a ELSE b

InitLimiter ==
    /\ clock = 0
    /\ \E c \in LimiterConfigs : limiter = RateLimiter(c[1], c[2], 0)
    /\ threads = [t \in Threads |-> Idle]
    /\ Resting
    /\ spotify = NoDownload
    /\ csv = NoCsv
    /\ tokens = <<>>
    /\ input = ""
    /\ normalized = None
    /\ renormalized = None

\* A thread calls acquire(blocking, timeout): start_time = time.monotonic()
CallAcquire(t, blocking, timeout) ==
    /\ threads[t].pc = "idle"
    /\ threads' = [threads EXCEPT ![t] =
                      [Idle EXCEPT !.pc = "lock", !.call = "acquire",
                                   !.blocking = blocking, !.timeout = timeout,
                                   !.start_time = clock]]
    /\ UNCHANGED <<clock, limiter, exceptLimiter>>

\* A thread calls get_stats().
CallGetStats(t) ==
    /\ threads[t].pc = "idle"
    /\ threads' = [threads EXCEPT ![t] =
                      [Idle EXCEPT !.pc = "lock", !.call = "get_stats"]]
    /\ UNCHANGED <<clock, limiter, exceptLimiter>>

\* Faulty variant of the mutex: it lets every thread in.
LockIgnored(owner) == TRUE

\* threading.Lock: free when no thread holds it.
LockFree(owner) == owner = NoThread

\* with self.lock:
TakeLock(t) ==
    /\ threads[t].pc = "lock"
    /\ LockFree(limiter.lock)
    /\ limiter' = [limiter EXCEPT !.lock = t]
    /\ threads' = [threads EXCEPT ![t].pc = "refill"]
    /\ UNCHANGED <<clock, exceptLimiter>>

\* Faulty variant of the refill: no cap at the burst size.
Uncapped(burst, amount) == amount

\* min(self.burst, ...), in units
Capped(burst, amount) == Smaller(burst * Unit, amount)

\* now = time.monotonic(); the refill; self.last_update = now.  get_stats
\* returns from here.
Refill(t) ==
    /\ threads[t].pc = "refill"
    /\ LET refilled == Capped(limiter.burst,
                           limiter.tokens + (clock - limiter.last_update) * limiter.rate)
       IN  IF threads[t].call = "get_stats"
           THEN /\ limiter' = [limiter EXCEPT !.tokens = refilled,
                                              !.last_update = clock,
                                              !.lock = NoThread]
                /\ threads' = [threads EXCEPT ![t] =
                                  [Idle EXCEPT !.call = "get_stats",
                                               !.result = "stats"]]
           ELSE /\ limiter' = [limiter EXCEPT !.tokens = refilled,
                                              !.last_update = clock]
                /\ threads' = [threads EXCEPT ![t].pc = "check", ![t].now = clock]
    /\ UNCHANGED <<clock, exceptLimiter>>

\* What acquire does with the thread when it finds no token: return False
\* when not blocking or out of time, otherwise sleep for wait_time.
Refused(t) ==
    LET th == threads[t]
        wait_time == CeilDiv(Unit - limiter.tokens, limiter.rate)
        remaining == th.timeout - (clock - th.start_time)
    IN  IF ~th.blocking
        THEN [Idle EXCEPT !.call = "acquire", !.result = "False"]
        ELSE IF th.timeout # NoTimeout /\ remaining <= 0
        THEN [Idle EXCEPT !.call = "acquire", !.result = "False"]
        ELSE [th EXCEPT !.pc = "sleep",
                        !.wake = clock + (IF th.timeout # NoTimeout
                                          THEN Smaller(wait_time, remaining)
                                          ELSE wait_time)]

\* if self.tokens >= 1: ... ; if not blocking: return False; wait_time and
\* the timeout check, leaving the lock.
Check(t) ==
    /\ threads[t].pc = "check"
    /\ IF limiter.tokens >= Unit
       THEN /\ threads' = [threads EXCEPT ![t].pc = "take"]
            /\ UNCHANGED limiter
       ELSE /\ threads' = [threads EXCEPT ![t] = Refused(t)]
            /\ limiter' = [limiter EXCEPT !.lock = NoThread]
    /\ UNCHANGED <<clock, exceptLimiter>>

\* self.tokens -= 1; self.call_times.append(now); return True
Take(t) ==
    /\ threads[t].pc = "take"
    /\ limiter' = [limiter EXCEPT !.tokens = @ - Unit,
                                  !.call_times = Append(@, threads[t].now),
                                  !.lock = NoThread]
    /\ threads' = [threads EXCEPT ![t] =
                      [Idle EXCEPT !.call = "acquire", !.result = "True"]]
    /\ UNCHANGED <<clock, exceptLimiter>>

\* time.sleep(wait_time) ends, at the earliest after wait_time.
Wake(t) ==
    /\ threads[t].pc = "sleep"
    /\ clock >= threads[t].wake
    /\ threads' = [threads EXCEPT ![t].pc = "lock"]
    /\ UNCHANGED <<clock, limiter, exceptLimiter>>

\* Time passes.
Tick ==
    /\ clock < MaxClock
    /\ clock' = clock + 1
    /\ UNCHANGED <<limiter, threads, exceptLimiter>>

\* The timeouts of the model, in ticks.
Timeouts == {NoTimeout, 1}

ThreadStep(t) ==
    \/ TakeLock(t)
    \/ Refill(t)
    \/ Check(t)
    \/ Take(t)
    \/ Wake(t)

NextLimiter ==
    \/ \E t \in Threads, blocking \in BOOLEAN, timeout \in Timeouts :
          CallAcquire(t, blocking, timeout)
    \/ \E t \in Threads : CallGetStats(t)
    \/ \E t \in Threads : ThreadStep(t)
    \/ Tick

SpecLimiter == InitLimiter /\ [][NextLimiter]_vars

(***************************************************************************)
(* Blocking acquires under a fair scheduler and a clock that never stops   *)
(***************************************************************************)
Earlier(time) == IF time > 0 THEN time - 1 ELSE 0

\* Time passes without end: at MaxClock the origin of the clock moves on
\* instead, so every recorded time is one tick older.  A time at the origin
\* stays there, which is exact as long as the bucket is full by then.
TickOn ==
    /\ IF clock < MaxClock
       THEN /\ clock' = clock + 1
            /\ UNCHANGED <<limiter, threads>>
       ELSE /\ clock' = clock
            /\ limiter' = [limiter EXCEPT
                              !.last_update = Earlier(@),
                              !.call_times = [i \in DOMAIN @ |-> Earlier(@[i])]]
            /\ threads' = [t \in Threads |->
                              [threads[t] EXCEPT !.start_time = Earlier(@),
                                                 !.now = Earlier(@),
                                                 !.wake = Earlier(@)]]
    /\ UNCHANGED exceptLimiter

\* Each thread makes one blocking acquire without a timeout.
AcquireOnce(t) ==
    /\ threads[t].call = "none"
    /\ CallAcquire(t, TRUE, NoTimeout)

NextLimiterFair ==
    \/ \E t \in Threads : AcquireOnce(t)
    \/ \E t \in Threads : ThreadStep(t)
    \/ TickOn

SpecLimiterFair ==
    /\ InitLimiter
    /\ [][NextLimiterFair]_vars
    /\ WF_vars(TickOn)
    /\ \A t \in Threads : WF_vars(ThreadStep(t))

(***************************************************************************)
(* The downloaders (src/track_manager/sources): a downloaded file is named *)
(* after its tags, checked against the output directory and moved          *)
(***************************************************************************)
\* unsafe_chars of sanitize_filename.
UnsafeChars == {"/", "\\", ":", "*", "?", "\"", "<", ">", "|"}

\* text.replace(char, "-") for every unsafe character, by halves.
RECURSIVE ReplaceUnsafe(_)
ReplaceUnsafe(s) ==
    IF Len(s) = 0 THEN ""
    ELSE IF Len(s) = 1 THEN (IF s \in UnsafeChars THEN "-" ELSE s)
    ELSE LET h == Len(s) \div 2
         IN  ReplaceUnsafe(SubSeq(s, 1, h)) \o ReplaceUnsafe(SubSeq(s, h + 1, Len(s)))

\* text.strip(". ")
StripDots(s) ==
    LET keep == {i \in 1..Len(s) : CharAt(s, i) \notin {".", " "}}
    IN  IF keep = {} THEN "" ELSE SubSeq(s, Min(keep), Max(keep))

sanitize_filename(s) == StripDots(ReplaceUnsafe(s))

\* create_filename: "Artist - Title.ext", or the fallback name when a tag
\* is missing.
create_filename(artist, title, extension, fallback) ==
    IF Truthy(artist) /\ Truthy(title)
    THEN sanitize_filename(artist[1]) \o " - " \o sanitize_filename(title[1])
             \o "." \o extension
    ELSE fallback \o "." \o extension

\* The downloaders whose _process_download is modelled.
Sources == {"youtube", "direct"}

\* The file a download leaves in the output directory, and its format.
TempFile == PathOf(OutputDir, ".tmp_vid.m4a", FALSE)

AudioFormat == "m4a"

\* The tags a downloaded file may carry, and the files the output
\* directory may hold before the download.
TempTags == {TagsSong, TagsSongHD, TagsNoTitle}

\* The names a file without tags is given; no file has them beforehand.
FallbackPaths ==
    {PathOf(OutputDir, n, FALSE) : n \in {"Uploader - Video.m4a", "Unknown - tmp_vid.m4a"}}

\* The files the output directory may hold before the download.
StoredPaths ==
    {PathOf(OutputDir, n, FALSE) :
        n \in {"Artist - Song.m4a", "Artist - Song.mp3",
               "ARTIST - Song [HD].m4a", "ARTIST - Song [HD].mp3"}}

\* Path.stem: the name without its last suffix.
Stem(name) ==
    LET dots == {i \in 2..Len(name) : CharAt(name, i) = "."}
    IN  IF dots = {} THEN name ELSE SubSeq(name, 1, Max(dots) - 1)

StoredFiles == {NoFile, Audio(TagsSong), Audio(TagsSongHD), Audio(TagsLive)}

\* final_path = self.output_dir / final_name
\* A file without artist or title is named after the uploader and the
\* video (YouTubeDownloader) or "Unknown" and the file's stem
\* (DirectDownloader).
FinalPath(files, file_path, source) ==
    LET md == extract_metadata(files, file_path)
        missing == ~Truthy(md[1]) \/ ~Truthy(md[2])
        artist == IF ~missing THEN md[1]
                  ELSE IF source = "youtube" THEN Some("Uploader") ELSE Some("Unknown")
        title == IF ~missing THEN md[2]
                 ELSE IF source = "youtube" THEN Some("Video")
                 ELSE Some(Stem(file_path.name))
    IN  PathOf(OutputDir,
               create_filename(artist, title, AudioFormat,
                               IF source = "youtube" THEN "youtube-vid"
                               ELSE Stem(file_path.name)),
               FALSE)

InitSources ==
    /\ \E t \in TempTags, stored \in [StoredPaths -> StoredFiles] :
          fs = [p \in AbsPaths \cup OutPaths |->
                   IF p = TempFile THEN Audio(t)
                   ELSE IF p \in StoredPaths THEN stored[p]
                   ELSE NoFile]
    /\ undeletable = {}
    /\ pc = "idle"
    /\ op = [name |-> "none"]
    /\ fs0 = fs
    /\ duplicates = <<>>
    /\ groups = <<>>
    /\ ret = "-"
    /\ extracted = 0
    /\ attempted = <<>>
    /\ invalid = 0
    /\ line = ""
    /\ choice = ""
    /\ log = <<>>
    /\ metadata = <<None, None>>
    /\ memo = NormalizedTags
    /\ OthersResting
    /\ tokens = <<>>
    /\ input = ""
    /\ normalized = None
    /\ renormalized = None

\* _process_download up to the answer of check_duplicate, which is
\* check_file_duplicate(file_path, self.output_dir, duplicate_handling).
CheckDownload(handling) ==
    /\ op.name = "none"
    /\ fs[TempFile] # NoFile
    /\ check_file_duplicate(TempFile, OutputDir, handling)

\* Where Path.rename finds a file of the final name: POSIX replaces it,
\* Windows raises FileExistsError.
Platforms == {"posix", "windows"}

\* The rest of _process_download: the file is unlinked when the check
\* answered True, and renamed to its final name otherwise.
\* YouTubeDownloader renames unconditionally, DirectDownloader unless the
\* two paths are equal.  An exception of the rename is caught by
\* _process_download, which then returns False.
MoveDownload(source, platform) ==
    /\ pc = "idle"
    /\ op.name = "check_file_duplicate"
    /\ ret \in {"True", "False"}
    /\ LET file_path == op.file_path
           final_path == FinalPath(fs, file_path, source)
           renames == ret = "False" /\ ~(source = "direct" /\ file_path = final_path)
           raises == renames /\ platform = "windows" /\ fs[final_path] # NoFile
       IN  /\ op' = [name |-> "_process_download", source |-> source,
                     file_path |-> file_path, final_path |-> final_path,
                     handling |-> op.handling, kept |-> (ret = "False"),
                     renamed |-> (renames /\ ~raises)]
           /\ fs' = IF ret = "True"
                    THEN [fs EXCEPT ![file_path] = NoFile]
                    ELSE IF renames /\ ~raises
                    THEN [fs EXCEPT ![final_path] = fs[file_path],
                                    ![file_path] = NoFile]
                    ELSE fs
           /\ ret' = IF raises THEN "False" ELSE "True"
    /\ UNCHANGED <<undeletable, pc, fs0, duplicates, groups, extracted, attempted,
                   invalid, line, choice, log, metadata, memo, normVars, otherVars>>

NextSources ==
    \/ \E h \in Handlings : CheckDownload(h)
    \/ \E typed \in InputLines : InputLine(typed)
    \/ \E source \in Sources, platform \in Platforms : MoveDownload(source, platform)

SpecSources == InitSources /\ [][NextSources]_vars

(***************************************************************************)
(* SpotifyDownloader.download: the loop over the songs of a URL            *)
(***************************************************************************)
\* The longest list of songs a URL resolves to.
MaxSongs == 2

\* The songs: one with an ISRC, one without, one without an artist.
SongSong == [artist |-> "Artist", name |-> "Song", isrc |-> "USRC17607839"]

SongLive == [artist |-> "Artist", name |-> "Song (Live)", isrc |-> ""]

SongNoArtist == [artist |-> "", name |-> "Song", isrc |-> ""]

SongSet == {SongSong, SongLive, SongNoArtist}

SongLists == UNION {[1..n -> SongSet] : n \in 0..MaxSongs}

\* The files the output directory may hold before the call.
SpotifyLibrary ==
    {[p \in AbsPaths \cup OutPaths |->
         IF p = PathOf(OutputDir, "Artist - Song.m4a", FALSE) /\ a THEN Audio(TagsSong)
         ELSE IF p = PathOf(OutputDir, "ARTIST - Song [HD].mp3", FALSE) /\ b
         THEN Audio(TagsSongHD)
         ELSE IF p = PathOf(OutputDir, "Artist - Song (Live).m4a", FALSE) /\ c
         THEN Audio(TagsLive)
         ELSE NoFile] : a \in BOOLEAN, b \in BOOLEAN, c \in BOOLEAN}

_check_existing_duplicates(song, files) ==
    IF song.artist = "" \/ song.name = "" THEN <<>>
    ELSE find_duplicates(song.artist, song.name, OutputDir, files).list

\* The file system once a download of the song was processed: the file,
\* tagged as the song, has the name create_filename gives it.
Stored(files, song) ==
    LET final_name ==
            create_filename(Some(song.artist), Some(song.name), AudioFormat, "unknown")
    IN  [files EXCEPT ![PathOf(OutputDir, final_name, FALSE)] =
            Audio([artist |-> <<song.artist>>, title |-> <<song.name>>])]

\* Faulty variant of the skip: the loop ends.
Break(position, count) == count + 1

\* continue: the loop goes on with the next song.
Continue(position, count) == position + 1

\* The loop at the song of the given position, or past the last song.
Advance(download, position) ==
    [download EXCEPT !.idx = position,
                     !.pc = IF position > Len(download.songs) THEN "done" ELSE "check"]

Logged(download, kind, found) ==
    [download EXCEPT !.events =
        Append(@, [kind |-> kind, idx |-> download.idx, found |-> found])]

spotifyRest ==
    <<undeletable, pc, op, fs0, duplicates, groups, ret, extracted, attempted,
      invalid, line, choice, log, metadata, memo, normVars, limiterVars, csv>>

InitSpotify ==
    /\ fs \in SpotifyLibrary
    /\ undeletable = {}
    /\ pc = "idle"
    /\ op = [name |-> "none"]
    /\ fs0 = fs
    /\ duplicates = <<>>
    /\ groups = <<>>
    /\ ret = "-"
    /\ extracted = 0
    /\ attempted = <<>>
    /\ invalid = 0
    /\ line = ""
    /\ choice = ""
    /\ log = <<>>
    /\ metadata = <<None, None>>
    /\ memo = NormalizedTags
    /\ OthersResting
    /\ tokens = <<>>
    /\ input = ""
    /\ normalized = None
    /\ renormalized = None

\* download(url) up to the loop: the songs of the URL; smart tells whether
\* the downloader has a parent downloader.
Download(songs, smart) ==
    /\ spotify.pc = "none"
    /\ spotify' = Advance([NoDownload EXCEPT !.songs = songs, !.smart = smart], 1)
    /\ UNCHANGED <<fs, spotifyRest>>

\* The check of the song at hand, and the skip when it found a file.
CheckSong ==
    /\ spotify.pc = "check"
    /\ LET song == spotify.songs[spotify.idx]
           existing_duplicates == _check_existing_duplicates(song, fs)
           checked == Logged(spotify, "check", existing_duplicates # <<>>)
       IN  spotify' =
               IF existing_duplicates # <<>>
               THEN Advance(checked, Continue(spotify.idx, Len(spotify.songs)))
               ELSE [checked EXCEPT !.pc = IF spotify.smart /\ song.isrc # ""
                                           THEN "smart" ELSE "spotdl"]
    /\ UNCHANGED <<fs, spotifyRest>>

\* parent_downloader.try_smart_download: it stores the song, or returns
\* False, or raises.
SmartDownload(outcome) ==
    /\ spotify.pc = "smart"
    /\ LET song == spotify.songs[spotify.idx]
           tried == Logged(spotify, "smart", FALSE)
       IN  CASE outcome = "stored" ->
                  /\ fs' = Stored(fs, song)
                  /\ spotify' = Advance([tried EXCEPT !.success = @ + 1], spotify.idx + 1)
             [] outcome = "refused" ->
                  /\ fs' = fs
                  /\ spotify' = [tried EXCEPT !.pc = "spotdl"]
             [] outcome = "raised" ->
                  /\ fs' = fs
                  /\ spotify' = Advance([tried EXCEPT !.failed = @ + 1], spotify.idx + 1)
    /\ UNCHANGED spotifyRest

\* spotdl.download(song) and what follows it: the file is found and
\* processed, or the download returns nothing, or raises.
SpotdlDownload(outcome) ==
    /\ spotify.pc = "spotdl"
    /\ LET song == spotify.songs[spotify.idx]
           tried == Logged(spotify, "spotdl", FALSE)
       IN  IF outcome = "stored"
           THEN /\ fs' = Stored(fs, song)
                /\ spotify' = Advance([tried EXCEPT !.success = @ + 1], spotify.idx + 1)
           ELSE /\ fs' = fs
                /\ spotify' = Advance([tried EXCEPT !.failed = @ + 1], spotify.idx + 1)
    /\ UNCHANGED spotifyRest

NextSpotify ==
    \/ \E songs \in SongLists, smart \in BOOLEAN : Download(songs, smart)
    \/ CheckSong
    \/ \E outcome \in {"stored", "refused", "raised"} : SmartDownload(outcome)
    \/ \E outcome \in {"stored", "none", "raised"} : SpotdlDownload(outcome)

SpecSpotify == InitSpotify /\ [][NextSpotify]_vars

(***************************************************************************)
(* The metadata review (src/track_manager/metadata.py): files are flagged  *)
(* in a CSV, the reviewer fills in suggestions, apply_metadata_csv applies *)
(* them                                                                    *)
(***************************************************************************)
\* The most rows the CSV holds.
MaxRows == 2

\* The files the rows name.
ReviewPaths ==
    {PathOf(OutputDir, n, FALSE) :
        n \in {"unknown.m4a", "Artist - Song.m4a"}}

\* What a flagged file may be on disk when the corrections are applied.
ReviewFiles == {NoFile, Unreadable, Audio(TagsOther)}

\* What the reviewer may write in the two suggestion columns.
SuggestedArtists == {" ", "Artist"}

SuggestedTitles == {"", "Song"}

\* A row of the CSV, reduced to the columns apply_metadata_csv reads.
Row(file_path, suggested_artist, suggested_title) ==
    [file_path |-> file_path, suggested_artist |-> suggested_artist,
     suggested_title |-> suggested_title]

Exists(files, p) == p \in DOMAIN files /\ files[p] # NoFile

Put(files, p, file) ==
    [q \in DOMAIN files \cup {p} |-> IF q = p THEN file ELSE files[q]]

\* Path.suffix: the name from its last dot on.
Suffix(name) ==
    LET dots == {i \in 2..Len(name) : CharAt(name, i) = "."}
    IN  IF dots = {} THEN "" ELSE SubSeq(name, Max(dots), Len(name))

\* audio["artist"] = [artist]; audio["title"] = [title]
SetTags(tags, artist, title) ==
    [k \in DOMAIN tags \cup {"artist", "title"} |->
        IF k = "artist" THEN <<artist>>
        ELSE IF k = "title" THEN <<title>>
        ELSE tags[k]]

\* update_metadata: the tags are written, and the file is renamed after
\* them unless a file of that name exists.  A file mutagen cannot read
\* makes it return False.
update_metadata(files, file_path, artist, title) ==
    IF files[file_path].kind # "audio"
    THEN [ok |-> FALSE, files |-> files]
    ELSE LET tagged == Audio(SetTags(files[file_path].tags, artist, title))
             saved == [files EXCEPT ![file_path] = tagged]
             new_name == sanitize_filename(artist) \o " - " \o sanitize_filename(title)
                             \o Suffix(file_path.name)
             new_path == PathOf(file_path.dir, new_name, FALSE)
         IN  IF Exists(saved, new_path) /\ new_path # file_path
             THEN [ok |-> TRUE, files |-> saved]
             ELSE IF new_path # file_path
             THEN [ok |-> TRUE,
                   files |-> Put([saved EXCEPT ![file_path] = NoFile], new_path, tagged)]
             ELSE [ok |-> TRUE, files |-> saved]

\* Faulty variant of the test of a row: one suggestion is enough.
ReadyEither(suggested_artist, suggested_title) ==
    suggested_artist # "" \/ suggested_title # ""

\* not (not suggested_artist or not suggested_title)
Ready(suggested_artist, suggested_title) ==
    suggested_artist # "" /\ suggested_title # ""

\* The loop over the rows, from row i on.  outcomes records what became
\* of each row: "remaining", "missing", "processed" or "failed".
RECURSIVE ApplyRows(_, _, _, _)
ApplyRows(rows, i, dry_run, acc) ==
    IF i > Len(rows) THEN acc
    ELSE LET row == rows[i]
             file_path == row.file_path
             suggested_artist == Strip(row.suggested_artist)
             suggested_title == Strip(row.suggested_title)
             updated == update_metadata(acc.files, file_path,
                                        suggested_artist, suggested_title)
         IN  IF ~Ready(suggested_artist, suggested_title)
             THEN ApplyRows(rows, i + 1, dry_run,
                      [acc EXCEPT !.remaining_rows = Append(@, row),
                                  !.result.remaining = @ + 1,
                                  !.outcomes = Append(@, "remaining")])
             ELSE IF ~Exists(acc.files, file_path)
             THEN ApplyRows(rows, i + 1, dry_run,
                      [acc EXCEPT !.result.errors = @ + 1,
                                  !.outcomes = Append(@, "missing")])
             ELSE IF dry_run
             THEN ApplyRows(rows, i + 1, dry_run,
                      [acc EXCEPT !.result.processed = @ + 1,
                                  !.outcomes = Append(@, "processed")])
             ELSE IF updated.ok
             THEN ApplyRows(rows, i + 1, dry_run,
                      [acc EXCEPT !.files = updated.files,
                                  !.result.processed = @ + 1,
                                  !.outcomes = Append(@, "processed")])
             ELSE ApplyRows(rows, i + 1, dry_run,
                      [acc EXCEPT !.files = updated.files,
                                  !.remaining_rows = Append(@, row),
                                  !.result.errors = @ + 1,
                                  !.outcomes = Append(@, "failed")])

NoResult == [processed |-> 0, remaining |-> 0, errors |-> 0]

reviewRest ==
    <<undeletable, pc, duplicates, groups, ret, extracted, attempted, invalid,
      line, choice, log, metadata, memo, normVars, limiterVars, spotify>>

InitReview ==
    /\ fs \in {[p \in AbsPaths \cup OutPaths |->
                   IF p \in ReviewPaths THEN on_disk[p] ELSE NoFile] :
                   on_disk \in [ReviewPaths -> ReviewFiles]}
    /\ csv \in {NoCsv, [exists |-> TRUE, rows |-> <<>>]}
    /\ undeletable = {}
    /\ pc = "idle"
    /\ op = [name |-> "none"]
    /\ fs0 = fs
    /\ duplicates = <<>>
    /\ groups = <<>>
    /\ ret = "-"
    /\ extracted = 0
    /\ attempted = <<>>
    /\ invalid = 0
    /\ line = ""
    /\ choice = ""
    /\ log = <<>>
    /\ metadata = <<None, None>>
    /\ memo = NormalizedTags
    /\ LimiterResting
    /\ spotify = NoDownload
    /\ tokens = <<>>
    /\ input = ""
    /\ normalized = None
    /\ renormalized = None

\* flag_for_review: the CSV is created if need be, and a row with empty
\* suggestions is appended, whether or not the file has a row already.
flag_for_review(file_path) ==
    /\ op.name = "none"
    /\ Len(csv.rows) < MaxRows
    /\ csv' = [exists |-> TRUE, rows |-> Append(csv.rows, Row(file_path, "", ""))]
    /\ UNCHANGED <<fs, op, fs0, reviewRest>>

\* The reviewer fills in the suggestion columns of a row.
EditRow(i, suggested_artist, suggested_title) ==
    /\ op.name = "none"
    /\ i \in 1..Len(csv.rows)
    /\ csv' = [csv EXCEPT !.rows[i].suggested_artist = suggested_artist,
                          !.rows[i].suggested_title = suggested_title]
    /\ UNCHANGED <<fs, op, fs0, reviewRest>>

apply_metadata_csv(dry_run) ==
    /\ op.name = "none"
    /\ fs0' = fs
    /\ IF ~csv.exists \/ csv.rows = <<>>
       THEN /\ op' = [name |-> "apply_metadata_csv", dry_run |-> dry_run,
                      csv |-> csv, outcomes |-> <<>>, result |-> NoResult]
            /\ UNCHANGED <<fs, csv>>
       ELSE LET done == ApplyRows(csv.rows, 1, dry_run,
                            [files |-> fs, remaining_rows |-> <<>>,
                             result |-> NoResult, outcomes |-> <<>>])
            IN  /\ op' = [name |-> "apply_metadata_csv", dry_run |-> dry_run,
                          csv |-> csv, outcomes |-> done.outcomes,
                          result |-> done.result]
                /\ fs' = done.files
                /\ csv' = IF dry_run THEN csv
                          ELSE IF done.remaining_rows # <<>>
                          THEN [exists |-> TRUE, rows |-> done.remaining_rows]
                          ELSE NoCsv
    /\ UNCHANGED reviewRest

NextReview ==
    \/ \E p \in ReviewPaths : flag_for_review(p)
    \/ \E i \in 1..MaxRows, a \in SuggestedArtists, t \in SuggestedTitles :
          EditRow(i, a, t)
    \/ \E dry_run \in BOOLEAN : apply_metadata_csv(dry_run)

SpecReview == InitReview /\ [][NextReview]_vars

(***************************************************************************)
(* Vocabulary of the properties                                            *)
(***************************************************************************)
CallName == "check_file_duplicate"

\* The files that existed when the operation was called and are gone now.
Deleted == {p \in AbsPaths : fs0[p] # NoFile /\ fs[p] = NoFile}

\* The operation asked the operator for a choice.
Prompted == \E i \in 1..Len(log) : log[i] = "Choice [s/k/r]: "

\* The file system files without the files of list.
Without(files, list) ==
    [p \in AbsPaths |-> IF p \in Range(list) THEN NoFile ELSE files[p]]

\* The candidate carries an artist and a title.
HasMetadata(files, file_path) ==
    LET md == extract_metadata(files, file_path)
    IN  Truthy(md[1]) /\ Truthy(md[2])

\* The normalized (artist, title) pair of a file.
PairOf(files, file_path) ==
    LET md == extract_metadata(files, file_path)
    IN  normalize_metadata(md[1], md[2])

\* The match set of a candidate, stated as a set: the scanned files of the
\* library, other than the candidate, whose pair equals the candidate's
\* (nothing when the candidate's artist or title is absent or normalizes
\* to the empty string).
MatchSet(files, file_path) ==
    IF \/ ~HasMetadata(files, file_path)
       \/ PairOf(files, file_path)[1] = ""
       \/ PairOf(files, file_path)[2] = ""
    THEN {}
    ELSE {p \in Range(ScannedFiles(files, LibraryDir)) :
             /\ resolve(p) # resolve(file_path)
             /\ PairOf(files, p) = PairOf(files, file_path)}

\* s contains sub.
Contains(s, sub) ==
    \E i \in 1..(Len(s) - Len(sub) + 1) : SubSeq(s, i, i + Len(sub) - 1) = sub

C2_SkipKeepPolicies ==
    (/\ op.name = CallName
     /\ op.handling \in {"skip", "keep"}
     /\ MatchSet(fs0, op.file_path) # {}) =>
        /\ pc = "idle"
        /\ ret = (IF op.handling = "skip" THEN "True" ELSE "False")
        /\ fs = fs0
        /\ attempted = <<>>
        /\ ~Prompted

\* Policy skip answered True on a candidate with two duplicates.
C2_Witness ==
    /\ op.name = CallName
    /\ op.handling = "skip"
    /\ Cardinality(MatchSet(fs0, op.file_path)) = 2
    /\ ret = "True"

\* C3: once 'r' has ended, every matched file has had its own deletion
\* attempt, whichever of them failed.
C3_EveryMatchAttempted ==
    (/\ op.name = CallName
     /\ pc = "idle"
     /\ choice = "r") => Range(duplicates) \subseteq Range(attempted)

\* C4: a candidate without artist or title, or with an empty match set
\* once the candidate itself is removed, gets False under every policy,
\* without a prompt and without a deletion.
C4_NoMatchIsFalse ==
    (/\ op.name = CallName
     /\ MatchSet(fs0, op.file_path) = {}) =>
        /\ pc = "idle"
        /\ ret = "False"
        /\ fs = fs0
        /\ attempted = <<>>
        /\ ~Prompted

\* The interactive policy answered False for a candidate without a title.
C4_Witness ==
    /\ op.name = CallName
    /\ op.handling = "interactive"
    /\ ~HasMetadata(fs0, op.file_path)
    /\ ret = "False"
    /\ pc = "idle"

\* C5: check_file_duplicate and check_file never list the candidate
\* (compared by resolved path) among its duplicates, never remove it, and
\* report no duplicate when the candidate is the only file of the library
\* that carries its pair.
C5_SelfExclusion ==
    (op.name \in {CallName, "check_file"}) =>
        /\ \A i \in 1..Len(duplicates) :
              resolve(duplicates[i]) # resolve(op.file_path)
        /\ resolve(op.file_path) \notin Range(attempted)
        /\ fs[resolve(op.file_path)] = fs0[resolve(op.file_path)]
        /\ MatchSet(fs0, op.file_path) = {} =>
              /\ duplicates = <<>>
              /\ op.name = CallName => ret = "False" /\ pc = "idle"
              /\ op.name = "check_file" =>
                    log \in {<<"No duplicates found">>,
                             <<"Could not extract metadata">>}

\* A candidate named by a relative path inside the library, found by the
\* scan itself, was given its duplicates and outlived the choice 'r'.
C5_Witness ==
    /\ op.name = CallName
    /\ op.file_path.rel
    /\ resolve(op.file_path) \in Range(ScannedFiles(fs0, LibraryDir))
    /\ choice = "r"
    /\ ret = "False"
    /\ Deleted # {}

\* C6: at the prompt, a line that is not 's', 'k' or 'r' once trimmed and
\* lowercased only adds the error message and a new prompt: nothing is
\* deleted and nothing returned.  A valid line ends the call, and its
\* result and deletions are those of that line alone, however many invalid
\* lines came before.
C6_InvalidLinesReprompt ==
    [][pc = "input" =>
          IF Strip(Lower(line')) \notin {"s", "k", "r"}
          THEN /\ pc' = "input"
               /\ fs' = fs
               /\ ret' = ret
               /\ attempted' = attempted
               /\ choice' = choice
               /\ log' = log \o <<"Invalid choice. Please enter s, k, or r.",
                                  "Choice [s/k/r]: ">>
          ELSE /\ pc' = "idle"
               /\ choice' = Strip(Lower(line'))
               /\ choice' = "s" => ret' = "True" /\ fs' = fs
               /\ choice' = "k" => ret' = "False" /\ fs' = fs
               /\ (choice' = "r" /\ Range(duplicates) \cap undeletable = {}) =>
                     ret' = "False" /\ fs' = Without(fs, duplicates)]_vars

\* The call returned on 'r', typed in capitals with a tab, after as many
\* invalid lines as the model allows.
C6_Witness ==
    /\ op.name = CallName
    /\ pc = "idle"
    /\ invalid = MaxInvalid
    /\ line = "R\t"
    /\ choice = "r"
    /\ ret = "False"
    /\ Deleted = Range(duplicates)

\* C7: find_duplicates, scan_library and check_file leave the file system
\* as it is; a step changes the file system only when it is the operator's
\* choice 'r' in the interactive mode of check_file_duplicate, and then it
\* only removes matched files.
C7_OnlyReplaceDeletes ==
    [][/\ op'.name \in {"find_duplicates", "scan_library", "check_file"} =>
             fs' = fs /\ attempted' = <<>>
       /\ fs' # fs =>
             /\ pc = "input"
             /\ op.name = CallName
             /\ op.handling = "interactive"
             /\ choice' = "r"
             /\ \A p \in AbsPaths :
                   fs'[p] # fs[p] => fs'[p] = NoFile /\ p \in Range(duplicates)]_vars

\* check_file reported a duplicate in a library from which an earlier
\* replace had removed a file.
C7_Witness ==
    /\ op.name = "check_file"
    /\ duplicates # <<>>
    /\ fs = fs0
    /\ \E p \in LibraryPaths : fs[p] = NoFile

\* The audio files of a directory: the existing files with extension mp3
\* or m4a, in any case.
AudioFiles(files, dir) ==
    {PathOf(dir, n, FALSE) : n \in
        {m \in Range(Listing(dir)) :
            /\ files[PathOf(dir, m, FALSE)] # NoFile
            /\ \/ EndsWith(Lower(m), ".mp3")
               \/ EndsWith(Lower(m), ".m4a")}}

\* C8: find_duplicates returns the empty list without extracting metadata
\* when artist or title is empty or normalizes to the empty string;
\* otherwise it returns exactly the audio files of the directory whose
\* normalized pair equals the normalized query pair, each at most once.
C8_FindDuplicatesExact ==
    (op.name = "find_duplicates") =>
        LET norm == normalize_metadata(Some(op.artist), Some(op.title))
        IN  IF op.artist = "" \/ op.title = "" \/ norm[1] = "" \/ norm[2] = ""
            THEN duplicates = <<>> /\ extracted = 0
            ELSE /\ Range(duplicates) =
                       {p \in AudioFiles(fs0, LibraryDir) : PairOf(fs0, p) = norm}
                 /\ Len(duplicates) = Cardinality(Range(duplicates))

\* C9: a text that carries the qualifier (Live) keeps it through
\* normalize_text, whatever else the text carries.
C9_QualifierKept ==
    (normalized # None /\ " (Live)" \in Range(tokens)) =>
        Contains(normalized[1], "(live)")

\* C10: normalize_text(normalize_text(s)) = normalize_text(s).
C10_Idempotent ==
    renormalized # None => renormalized = normalized

\* The tokens are an artist, a guest in one of the six spellings and a tail.
FeatShaped ==
    /\ Len(tokens) = 5
    /\ <<tokens[2], tokens[4]>> \in FeatSpellings

\* C11: 'A ft. G', 'A feat. G', 'A featuring G', 'A (ft. G)', 'A (feat. G)'
\* and 'A (featuring G)' all normalize to 'a feat. g', and a qualifier that
\* follows is left as it is.
C11_FeatCanonical ==
    (FeatShaped /\ normalized # None) =>
        normalized[1] =
            Lower(tokens[1]) \o " feat. " \o Lower(tokens[3]) \o Lower(tokens[5])

\* The tokens are a plain title followed by junk annotations.
JunkShaped ==
    /\ Len(tokens) >= 2
    /\ tokens[1] \in Titles
    /\ \A i \in 2..Len(tokens) : tokens[i] \in JunkAnnotations

\* C12: a plain title followed by annotations of the junk categories, in
\* any number and order, normalizes to just the lowercased title.
C12_JunkRemoved ==
    (JunkShaped /\ normalized # None) => normalized[1] = Lower(tokens[1])

\* No upper-case letter, no whitespace at either end, no two whitespace
\* characters side by side.
NormalForm(s) ==
    /\ \A i \in 1..Len(s) :
          \A j \in 1..Len(UpperLetters) : CharAt(s, i) # CharAt(UpperLetters, j)
    /\ Len(s) > 0 => CharAt(s, 1) \notin Whitespace /\ CharAt(s, Len(s)) \notin Whitespace
    /\ \A i \in 1..(Len(s) - 1) :
          ~(CharAt(s, i) \in Whitespace /\ CharAt(s, i + 1) \in Whitespace)

\* C13: the result of normalize_text is lowercase, trimmed and free of
\* whitespace runs; the empty text gives the empty text, and
\* normalize_metadata gives '' for every absent field.
C13_NormalForm ==
    /\ normalized # None =>
          /\ NormalForm(normalized[1])
          /\ input = "" => normalized[1] = ""
    /\ normalize_metadata(None, None) = <<"", "">>
    /\ \A t \in TagStrings :
          /\ normalize_metadata(None, Some(t))[1] = ""
          /\ normalize_metadata(Some(t), None)[2] = ""

\* A text with upper-case letters and a whitespace run at its end has been
\* normalized.
C13_Witness ==
    /\ normalized # None
    /\ Len(tokens) = 3
    /\ tokens[1] = "Song"
    /\ tokens[3] = "  "
    /\ ~NormalForm(input)

\* C14: the scans of find_duplicates and scan_library examine every file
\* whose extension is a case variant of mp3 or m4a, and such a file is
\* reported like any other.
C14_AnyCaseExtension ==
    /\ op.name = "scan_library" =>
          /\ extracted = Cardinality(AudioFiles(fs0, LibraryDir))
          /\ \A p, q \in AudioFiles(fs0, LibraryDir) :
                (p # q /\ HasMetadata(fs0, p) /\ HasMetadata(fs0, q)
                      /\ TrackKey(fs0, p) = TrackKey(fs0, q)) =>
                    /\ TrackKey(fs0, p) \in DOMAIN groups
                    /\ {p, q} \subseteq Range(groups[TrackKey(fs0, p)])
    /\ (op.name = "find_duplicates" /\ extracted > 0) =>
          /\ extracted = Cardinality(AudioFiles(fs0, LibraryDir))
          /\ \A p \in AudioFiles(fs0, LibraryDir) :
                PairOf(fs0, p) = normalize_metadata(Some(op.artist), Some(op.title))
                    => p \in Range(duplicates)

\* The audio files of the library that carry an artist and a title.
TaggedFiles(files) ==
    {p \in AudioFiles(files, LibraryDir) : HasMetadata(files, p)}

\* C15: scan_library returns a mapping keyed 'artist|||title' of the
\* normalized pair; each group holds exactly the files of that pair, at
\* least two of them, and every pair shared by two files has its group.
C15_GroupsExact ==
    op.name = "scan_library" =>
        /\ \A k \in DOMAIN groups :
              /\ Len(groups[k]) >= 2
              /\ Len(groups[k]) = Cardinality(Range(groups[k]))
              /\ \E p \in TaggedFiles(fs0) :
                    /\ k = PairOf(fs0, p)[1] \o "|||" \o PairOf(fs0, p)[2]
                    /\ Range(groups[k]) =
                          {q \in TaggedFiles(fs0) : PairOf(fs0, q) = PairOf(fs0, p)}
        /\ \A p, q \in TaggedFiles(fs0) :
              (p # q /\ PairOf(fs0, p) = PairOf(fs0, q)) =>
                  (PairOf(fs0, p)[1] \o "|||" \o PairOf(fs0, p)[2]) \in DOMAIN groups

\* C16: no group that scan_library returns is keyed on an empty normalized
\* artist or an empty normalized title.
C16_NoEmptyKey ==
    op.name = "scan_library" =>
        \A k \in DOMAIN groups :
            \A p \in Range(groups[k]) :
                /\ PairOf(fs0, p)[1] # ""
                /\ PairOf(fs0, p)[2] # ""

\* The place of the first prompt in the output.
FirstPrompt == Min({i \in 1..Len(log) : log[i] = "Choice [s/k/r]: "})

\* C17: when check_file_duplicate finds a match, the interactive mode has
\* printed the comparison of the candidate with every matched file before
\* its first prompt, and the modes skip and keep have printed one line and
\* have not prompted.
C17_ComparisonBeforePrompt ==
    (op.name = CallName /\ duplicates # <<>>) =>
        IF op.handling \in {"skip", "keep"}
        THEN Len(log) = 1 /\ ~Prompted
        ELSE /\ Prompted
             /\ \E j \in 1..(FirstPrompt - 1) : log[j] = "New file"
             /\ \A d \in Range(duplicates) :
                   \E j \in 1..(FirstPrompt - 1) : log[j] = "Existing: " \o d.name

\* C18: extract_metadata never raises; a file that does not exist, a file
\* of no recognized container and a file the tag reader fails on give
\* (None, None), and a tag that is present is returned as its first value.
C18_NeverRaises ==
    op.name = "extract_metadata" =>
        LET f == fs[resolve(op.file_path)]
            First(key) == IF key \in DOMAIN f.tags THEN <<f.tags[key][1]>> ELSE <<>>
        IN  /\ ret = "tuple"
            /\ IF f.kind # "audio" THEN metadata = <<<<>>, <<>>>>
               ELSE IF \E k \in {"artist", "title"} \cap DOMAIN f.tags : f.tags[k] = <<>>
               THEN metadata = <<<<>>, <<>>>>
               ELSE metadata = <<First("artist"), First("title")>>

\* extract_metadata has answered (None, None) for a file the tag reader
\* fails on.
C18_Witness ==
    /\ op.name = "extract_metadata"
    /\ ret = "tuple"
    /\ fs[resolve(op.file_path)] = Unreadable
    /\ metadata = <<None, None>>

\* The recording an ISRC of the model names, whatever its letter case.
IsrcRecording(isrc) ==
    CASE isrc \in {"USRC12345678", "usrc12345678"} -> 1
      [] isrc = "USRC87654321" -> 2
      [] OTHER -> 3

\* The library files that carry the tag key.
Carrying(key) ==
    {p \in LibraryPaths : fs[p].kind = "audio" /\ key \in DOMAIN fs[p].tags}

\* C19: find_duplicates_by_isrc returns the empty list for the empty ISRC,
\* and otherwise exactly the files whose ISRC tag is the query up to letter
\* case, every one of them.
C19_IsrcMatches ==
    op.name = "find_duplicates_by_isrc" =>
        IF op.isrc = "" THEN duplicates = <<>>
        ELSE /\ Range(duplicates) =
                   {p \in Carrying("isrc") :
                       IsrcRecording(fs[p].tags.isrc[1]) = IsrcRecording(op.isrc)}
             /\ Len(duplicates) = Cardinality(Range(duplicates))

\* A query in upper case has found two files, one of them tagged in lower case.
C19_Witness ==
    /\ op.name = "find_duplicates_by_isrc"
    /\ op.isrc = "USRC12345678"
    /\ Len(duplicates) >= 2
    /\ \E p \in Range(duplicates) : fs[p].tags.isrc[1] = "usrc12345678"

\* What a URL of the model comes to once one trailing slash and the query
\* string are gone and case is ignored.
UrlTrack(url) ==
    CASE url \in {UrlA, UrlA \o "/", UrlA \o "?si=abc123"} -> "123"
      [] url \in {UrlA \o "//", UrlA \o "/?si=abc123"} -> "123/"
      [] url = UrlB -> "456"
      [] url \in {UrlC, UrlCUpper} -> "abc"
      [] OTHER -> url

\* C20: find_duplicates_by_track_url returns the empty list for the empty
\* URL, and otherwise exactly the files whose stored URL equals the query
\* once one trailing slash and the query string are stripped and case is
\* ignored.
C20_UrlMatches ==
    op.name = "find_duplicates_by_track_url" =>
        IF op.track_url = "" THEN duplicates = <<>>
        ELSE /\ Range(duplicates) =
                   {p \in Carrying("track_url") :
                       UrlTrack(fs[p].tags.track_url[1]) = UrlTrack(op.track_url)}
             /\ Len(duplicates) = Cardinality(Range(duplicates))

\* A query with a query string has found a file stored with a trailing
\* slash, beside a file stored with two slashes that it has not returned.
C20_Witness ==
    /\ op.name = "find_duplicates_by_track_url"
    /\ op.track_url = UrlA \o "?si=abc123"
    /\ \E p \in Range(duplicates) : fs[p].tags.track_url[1] = UrlA \o "/"
    /\ \E p \in Carrying("track_url") \ Range(duplicates) :
          fs[p].tags.track_url[1] = UrlA \o "//"

\* The file is listed in some group of the mapping scan_library returned.
Grouped(file_path) ==
    \E k \in DOMAIN groups : file_path \in Range(groups[k])

\* find_duplicates, asked with the tags of the file, returns another file.
FoundElsewhere(files, file_path) ==
    LET md == extract_metadata(files, file_path)
        found == find_duplicates(md[1][1], md[2][1], LibraryDir, files)
    IN  Range(found.list) \ {file_path} # {}

\* C26: a file that carries artist and title is listed in a group of
\* scan_library exactly when find_duplicates, asked with its tags, returns
\* a file other than it.
C26_ScanAgreesWithFind ==
    op.name = "scan_library" =>
        \A f \in TaggedFiles(fs0) : Grouped(f) <=> FoundElsewhere(fs0, f)

\* C30: once check_file_duplicate has returned from the choice 'r', the
\* next call on the same candidate, under any policy, returns False without
\* a prompt, and the candidate still exists.
C30_ReplaceResolves ==
    [][(/\ op.name = CallName
        /\ op.handling = "interactive"
        /\ pc = "idle"
        /\ choice = "r"
        /\ ret = "False"
        /\ op'.name = CallName
        /\ op'.file_path = op.file_path) =>
           /\ pc' = "idle"
           /\ ret' = "False"
           /\ log' = <<>>
           /\ fs'[resolve(op.file_path)] # NoFile]_vars

\* A call of check_file_duplicate has answered False, without a prompt, on
\* a tagged candidate whose library an earlier replace had emptied of two
\* files.
C30_Witness ==
    /\ op.name = CallName
    /\ pc = "idle"
    /\ ret = "False"
    /\ choice = ""
    /\ HasMetadata(fs0, op.file_path)
    /\ Cardinality({p \in LibraryPaths : fs0[p] = NoFile}) = 2

\* C21: whatever the interleaving of the threads, the acquires granted so
\* far are at most burst plus rate times the time elapsed, and the token
\* count is never negative.
C21_ConcurrentAcquire ==
    /\ Len(limiter.call_times) * Unit <= limiter.burst * Unit + limiter.rate * clock
    /\ limiter.tokens >= 0

\* Two threads have each been granted a token of a burst of two at the
\* same instant, and the bucket is empty.
C21_Witness ==
    /\ \A t \in Threads : threads[t].result = "True"
    /\ limiter.call_times = <<0, 0>>
    /\ limiter.tokens = 0
    /\ clock = 0

\* The time of the last grant, or of construction when there is none.
LastGrant ==
    IF limiter.call_times = <<>> THEN 0
    ELSE limiter.call_times[Len(limiter.call_times)]

\* C22: with no time elapsed a fresh limiter grants non-blocking acquires
\* until burst of them are granted and refuses the next one with False,
\* consuming nothing; once 1/rate seconds have passed since the last grant
\* an acquire is granted again.
C22_BurstThenRefill ==
    [][\A t \in Threads :
          (/\ threads[t].pc = "check"
           /\ threads'[t].pc # "check"
           /\ ~threads[t].blocking) =>
              /\ (clock = 0 /\ Len(limiter.call_times) < limiter.burst) =>
                    threads'[t].pc = "take"
              /\ (clock = 0 /\ Len(limiter.call_times) >= limiter.burst) =>
                    /\ threads'[t].result = "False"
                    /\ limiter'.tokens = limiter.tokens
                    /\ limiter'.call_times = limiter.call_times
              /\ (threads[t].now - LastGrant) * limiter.rate >= Unit =>
                    threads'[t].pc = "take"]_vars

\* C23: the token count stays between 0 and the burst size, and no more
\* than burst acquires are granted at one instant, however long the
\* limiter was idle before.
C23_RefillCapped ==
    /\ limiter.tokens >= 0
    /\ limiter.tokens <= limiter.burst * Unit
    /\ \A time \in 0..clock :
          Cardinality({i \in DOMAIN limiter.call_times : limiter.call_times[i] = time})
              <= limiter.burst

\* get_stats has refilled a bucket emptied at time 0 after an idle period
\* that would have filled it more than once.
C23_Witness ==
    /\ \E t \in Threads : threads[t].result = "stats"
    /\ limiter.burst >= 1
    /\ Len(limiter.call_times) = limiter.burst
    /\ LastGrant = 0
    /\ limiter.last_update * limiter.rate > limiter.burst * Unit
    /\ limiter.tokens = limiter.burst * Unit

\* C28: a blocking acquire without a timeout eventually returns True,
\* whatever the rate and the burst size of the limiter.
C28_BlockingAcquireReturns ==
    \A t \in Threads :
        [](threads[t].call = "acquire" => <>(threads[t].result = "True"))


\* C27: keep-both survives the move of the downloaded file: when
\* check_duplicate has answered False with matches (policy keep or the
\* choice k) and _process_download has renamed the file to its final name,
\* every matched file is still the file it was and the new file exists
\* beside it.
KeptBoth ==
    /\ op.name = "_process_download"
    /\ op.kept
    /\ op.renamed
    /\ duplicates # <<>>
    /\ (op.handling = "keep" \/ choice = "k")

C27_KeepBothSurvivesMove ==
    KeptBoth =>
        /\ fs[op.final_path] # NoFile
        /\ \A i \in 1..Len(duplicates) :
              /\ duplicates[i] # op.final_path
              /\ fs[duplicates[i]] = fs0[duplicates[i]]


\* C25: in SpotifyDownloader.download every download of a song, smart or
\* by spotdl, comes after the check of that song, and only when the check
\* found no file; and when the loop has ended every song of the list has
\* been checked, and every song whose check found no file has been given
\* to a download, whatever was skipped before it.
EventsOf(i) == {k \in 1..Len(spotify.events) : spotify.events[k].idx = i}

C25_CheckBeforeDownload ==
    /\ \A k \in 1..Len(spotify.events) :
          spotify.events[k].kind # "check" =>
              \E j \in 1..(k - 1) :
                  spotify.events[j] =
                      [kind |-> "check", idx |-> spotify.events[k].idx, found |-> FALSE]
    /\ spotify.pc = "done" =>
          \A i \in 1..Len(spotify.songs) :
              /\ \E k \in EventsOf(i) : spotify.events[k].kind = "check"
              /\ \A k \in EventsOf(i) :
                    (spotify.events[k].kind = "check" /\ ~spotify.events[k].found) =>
                        \E j \in EventsOf(i) : spotify.events[j].kind = "spotdl"
                                                  \/ spotify.events[j].kind = "smart"

\* A first song skipped as already stored, and a second one downloaded.
C25_Witness ==
    /\ spotify.pc = "done"
    /\ Len(spotify.songs) = 2
    /\ spotify.events[1] = [kind |-> "check", idx |-> 1, found |-> TRUE]
    /\ \E k \in EventsOf(2) : spotify.events[k].kind = "spotdl"


\* The vocabulary of the review: the call that was made, the rows it
\* read, and what it is for a row to have both suggestions.
Applied == op.name = "apply_metadata_csv" /\ ~op.dry_run /\ op.csv.exists

RowsRead == IF op.name = "apply_metadata_csv" THEN op.csv.rows ELSE <<>>

HasBoth(row) == Strip(row.suggested_artist) # "" /\ Strip(row.suggested_title) # ""

Kept(row) == csv.exists /\ \E k \in 1..Len(csv.rows) : csv.rows[k] = row

\* C24 as stated: apply_metadata_csv (not dry run) processes only the rows
\* that have both suggestions; the rows lacking one stay in the CSV and
\* their files are as they were; the processed rows are no longer in the
\* CSV; and the CSV is removed when no row remains.
C24_AsStated ==
    Applied =>
        /\ \A i \in 1..Len(RowsRead) :
              /\ op.outcomes[i] # "remaining" => HasBoth(RowsRead[i])
              /\ ~HasBoth(RowsRead[i]) =>
                    /\ Kept(RowsRead[i])
                    /\ fs[RowsRead[i].file_path] = fs0[RowsRead[i].file_path]
              /\ op.outcomes[i] = "processed" => ~Kept(RowsRead[i])
        /\ (csv.rows = <<>> => ~csv.exists)

\* Some row with both suggestions names the file.
NamedByReadyRow(file_path) ==
    \E j \in 1..Len(RowsRead) :
        HasBoth(RowsRead[j]) /\ RowsRead[j].file_path = file_path

\* C24, amended: the same, except that the file of a row lacking a
\* suggestion is as it was only if it existed and no row with both
\* suggestions names it, and that the CSV is removed when no row remains
\* of the rows that were read (a CSV without rows is left alone).
C24_PartialCorrections ==
    Applied =>
        /\ \A i \in 1..Len(RowsRead) :
              /\ op.outcomes[i] # "remaining" => HasBoth(RowsRead[i])
              /\ ~HasBoth(RowsRead[i]) =>
                    /\ Kept(RowsRead[i])
                    /\ (fs0[RowsRead[i].file_path] # NoFile
                          /\ ~NamedByReadyRow(RowsRead[i].file_path)) =>
                            fs[RowsRead[i].file_path] = fs0[RowsRead[i].file_path]
              /\ op.outcomes[i] = "processed" => ~Kept(RowsRead[i])
        /\ ((RowsRead # <<>> /\ csv.rows = <<>>) => ~csv.exists)

\* Two rows for two files: one corrected and gone from the CSV, the other
\* still waiting for its suggestions, its file as it was.
C24_Witness ==
    /\ Applied
    /\ Len(RowsRead) = 2
    /\ RowsRead[1].file_path # RowsRead[2].file_path
    /\ op.outcomes = <<"processed", "remaining">>
    /\ csv.rows = <<RowsRead[2]>>
    /\ fs[RowsRead[1].file_path] # fs0[RowsRead[1].file_path]
    /\ fs[RowsRead[2].file_path] = fs0[RowsRead[2].file_path]
    /\ fs0[RowsRead[2].file_path] # NoFile

\* C29: no review row is lost: after apply_metadata_csv (not dry run) every
\* row that was read has had its correction applied or is still in the CSV.
C29_NoRowLost ==
    Applied =>
        \A i \in 1..Len(RowsRead) :
            op.outcomes[i] = "processed" \/ Kept(RowsRead[i])

====
